---- MODULE Spec2Model ----
(***************************************************************************)
(* Authentication / authorization gate of the ProcessFlow backend:         *)
(*   src/src/middleware/auth.js   auth, adminAuth, managerAuth             *)
(*   src/src/routes/auth.js       POST /login                              *)
(*   src/unnamed/part_006         the user routes behind the gate          *)
(* jwt.sign / jwt.verify are the jsonwebtoken library: verify checks the   *)
(* shape of the string, then the signature, then the expiry.               *)
(***************************************************************************)
EXTENDS Integers, Sequences, FiniteSets, TLC

\* ------------------------------------------------------------------ bounds
MaxIssued == 2        \* tokens handed out by login
TickStep == 1800      \* seconds the clock advances per Tick
MaxTime == 3600       \* the clock stops advancing at or after this instant
MaxPage == 11         \* page numbers asked for
MaxLimit == 10        \* items per page
MaxTotal == 95        \* items in the collection
MaxQuery == 101       \* the largest number sent as page or limit

\* --------------------------------------------------------------- constants
TokenTTL == 3600      \* expiresIn: '1h'

\* One request is in the gate at a time; between its steps the clock may
\* advance and logins may be served.
Slots == {"a"}
AllSlots == {"a", "b"}   \* the slots of the runs with two requests in flight
UserIds == {"u1", "u2"}
Roles == {"admin", "manager", "user"}
NoSecret == "unset"
ServerSecret == "k1"
OtherKey == "k0"      \* any key that is not the server's secret
NoTime == -1

\* ------------------------------------------------------------------ tokens
\* A token is the string a client presents.  segs is the number of
\* dot-separated segments, key the key its signature was made with, the
\* other fields are the claims of its payload.
Tok(s, k, u, n, ro, i, e) ==
  [segs |-> s, key |-> k, userId |-> u, username |-> n, role |-> ro,
   iat |-> i, exp |-> e]

EmptyTok == Tok(0, "none", "u1", "", "user", 0, 0)

MalformedTokens == { Tok(2, "none", "u1", "", "user", 0, 0) }

\* Tokens signed by someone who does not hold the server's secret, or
\* issued tokens whose payload was altered afterwards.
ForgedTokens ==
  { Tok(3, OtherKey, "u1", "admin", "admin", 0, e) : e \in {0, MaxTime + TokenTTL} }

\* ----------------------------------------------------------------- library
\* jwt.verify(token, secret): the name of the error it throws, or "ok".
JwtVerify(tok, key, t) ==
  IF tok.segs # 3 THEN "JsonWebTokenError"
  ELSE IF key = NoSecret THEN "JsonWebTokenError"
  ELSE IF tok.key # key THEN "JsonWebTokenError"
  ELSE IF t >= tok.exp THEN "TokenExpiredError"
  ELSE "ok"

\* jwt.sign(payload, secret, {expiresIn: '1h', ...}) for the login payload.
JwtSign(u, name, ro, t, key) == Tok(3, key, u, name, ro, t, t + TokenTTL)

\* bcrypt.hash: the string stored for the string it is handed (a clear
\* password, or a string that is a hash already), and the comparison.
Hash(p) == "$2a$12$" \o p
comparePassword(stored, candidate) == stored = Hash(candidate)

\* String.prototype.toLowerCase / the 'i' flag of the login RegExp.
Lower(s) ==
  CASE s = "ADMIN" -> "admin"
    [] s = "Bob" -> "bob"
    [] s = "Bob@x.io" -> "bob@x.io"
    [] OTHER -> s

VARIABLES
  JWT_SECRET,   \* process.env.JWT_SECRET
  now,          \* the clock, in seconds
  users,        \* the User collection: id -> document
  issued,       \* the tokens login has returned so far
  loginRes,     \* the response of the latest POST /login
  fresh,        \* the token just issued and the account it was issued to,
                \* while the clock and the accounts are as they were then
  reqs,         \* the requests in flight, one per slot
  loggedOut,    \* the tokens whose holder has logged out or changed password
  tasks,        \* the Task collection: id -> document
  args,         \* the arguments of the utility call under study
  ret           \* what that call returned, NoRet before it ran

vars == <<JWT_SECRET, now, users, issued, loginRes, fresh, reqs, loggedOut,
          tasks, args, ret>>
util == <<args, ret>>

\* --------------------------------------------------------------- documents
\* What User.findById hands back: a document, null, or a thrown error.
NoDoc ==
  [kind |-> "none", id |-> "u1", role |-> "user", isActive |-> FALSE,
   email |-> ""]
NullDoc == [NoDoc EXCEPT !.kind = "null"]
DbError == [NoDoc EXCEPT !.kind = "error"]

\* a query whose filter is dropped, so that the first document matches
findByIdFirst(us, id) ==
  IF us["u1"].exists
    THEN [kind |-> "doc", id |-> "u1", role |-> us["u1"].role,
          isActive |-> us["u1"].isActive, email |-> us["u1"].email]
    ELSE NullDoc

findById(us, id) ==
  IF us[id].exists
    THEN [kind |-> "doc", id |-> id, role |-> us[id].role,
          isActive |-> us[id].isActive, email |-> us[id].email]
    ELSE NullDoc

\* User.findOne({ username: { $regex: new RegExp(`^${username}$`, 'i') } })
findByUsername(us, name) ==
  { u \in UserIds : us[u].exists /\ Lower(us[u].username) = Lower(name) }

\* ---------------------------------------------------------------- requests
Absent == {}
NoBody ==
  [role |-> Absent, isActive |-> Absent, currentPassword |-> "",
   newPassword |-> "", username |-> Absent, email |-> Absent,
   password |-> ""]

\* the middleware each route is mounted behind
GateOf(route) ==
  CASE route = "update" -> "auth"          \* PUT /api/users/:id
    [] route = "stats" -> "managerAuth"    \* GET /api/users/stats/dashboard
    [] route = "status" -> "adminAuth"     \* PATCH /api/users/:id/status
    [] route = "delete" -> "adminAuth"     \* DELETE /api/users/:id
    [] route = "logout" -> "auth"          \* POST /api/auth/logout
    [] route = "changePassword" -> "auth"  \* PUT /api/auth/change-password
    [] route = "create" -> "adminAuth"     \* POST /api/users
    [] route = "profile" -> "auth"         \* PUT /api/users/profile/me
    [] route = "taskUpdate" -> "auth"      \* PUT /api/tasks/:id
    [] route = "taskDelete" -> "managerAuth"  \* DELETE /api/tasks/:id
    [] route = "taskComment" -> "auth"     \* POST /api/tasks/:id/comments
    [] route = "taskChecklist" -> "auth"   \* PUT /api/tasks/:id/checklist/:itemId

Rej(st, msg) == [ok |-> FALSE, status |-> st, error |-> msg]
Pass == [ok |-> TRUE, status |-> 0, error |-> ""]

IdleReq ==
  [pc |-> "done", route |-> "stats", target |-> "u1", body |-> NoBody,
   hdr |-> [scheme |-> "absent", token |-> EmptyTok], t0 |-> 0,
   found |-> NoDoc, user |-> NoDoc, imm |-> FALSE,
   status |-> 0, error |-> "", nexts |-> 0, resps |-> 0, stages |-> <<>>,
   hstatus |-> 0]

\* auth without the three-segment check: jwt.verify meets the string itself
AuthSyncNoShape(hdr, secret, t) ==
  IF hdr.scheme = "absent" THEN Rej(401, "Token de acesso requerido")
  ELSE IF hdr.scheme # "bearer" THEN Rej(401, "Formato de token invalido")
  ELSE IF hdr.token.segs = 0 THEN Rej(401, "Token de acesso requerido")
  ELSE IF secret = NoSecret THEN Rej(500, "Erro de configuracao do servidor")
  ELSE LET v == JwtVerify(hdr.token, secret, t) IN
       IF v = "TokenExpiredError" THEN Rej(401, "Token expirado")
       ELSE IF v = "JsonWebTokenError" THEN Rej(401, "Token invalido")
       ELSE IF v # "ok" THEN Rej(401, "Falha na autenticacao")
       ELSE Pass

\* auth answering every jwt.verify error alike
AuthSyncOneReason(hdr, secret, t) ==
  IF hdr.scheme = "absent" THEN Rej(401, "Token de acesso requerido")
  ELSE IF hdr.scheme # "bearer" THEN Rej(401, "Formato de token invalido")
  ELSE IF hdr.token.segs = 0 THEN Rej(401, "Token de acesso requerido")
  ELSE IF secret = NoSecret THEN Rej(500, "Erro de configuracao do servidor")
  ELSE IF hdr.token.segs # 3 THEN Rej(401, "Token malformado")
  ELSE IF JwtVerify(hdr.token, secret, t) # "ok" THEN Rej(401, "Token invalido")
  ELSE Pass

\* auth falling back to a built-in key when JWT_SECRET is not set
AuthSyncDefaultSecret(hdr, secret, t) ==
  LET key == IF secret = NoSecret THEN OtherKey ELSE secret IN
  IF hdr.scheme = "absent" THEN Rej(401, "Token de acesso requerido")
  ELSE IF hdr.scheme # "bearer" THEN Rej(401, "Formato de token invalido")
  ELSE IF hdr.token.segs = 0 THEN Rej(401, "Token de acesso requerido")
  ELSE IF hdr.token.segs # 3 THEN Rej(401, "Token malformado")
  ELSE LET v == JwtVerify(hdr.token, key, t) IN
       IF v = "TokenExpiredError" THEN Rej(401, "Token expirado")
       ELSE IF v = "JsonWebTokenError" THEN Rej(401, "Token invalido")
       ELSE IF v # "ok" THEN Rej(401, "Falha na autenticacao")
       ELSE Pass

\* auth with jwt.verify called with ignoreExpiration
AuthSyncIgnoreExp(hdr, secret, t) ==
  IF hdr.scheme = "absent" THEN Rej(401, "Token de acesso requerido")
  ELSE IF hdr.scheme # "bearer" THEN Rej(401, "Formato de token invalido")
  ELSE IF hdr.token.segs = 0 THEN Rej(401, "Token de acesso requerido")
  ELSE IF secret = NoSecret THEN Rej(500, "Erro de configuracao do servidor")
  ELSE IF hdr.token.segs # 3 THEN Rej(401, "Token malformado")
  ELSE IF JwtVerify(hdr.token, secret, t) = "JsonWebTokenError"
    THEN Rej(401, "Token invalido")
  ELSE Pass

\* The part of auth that runs before the account lookup: extraction of the
\* bearer credential, the secret check, the shape check and jwt.verify.
AuthSync(hdr, secret, t) ==
  IF hdr.scheme = "absent" THEN Rej(401, "Token de acesso requerido")
  ELSE IF hdr.scheme # "bearer" THEN Rej(401, "Formato de token invalido")
  ELSE IF hdr.token.segs = 0 THEN Rej(401, "Token de acesso requerido")
  ELSE IF secret = NoSecret THEN Rej(500, "Erro de configuracao do servidor")
  ELSE IF hdr.token.segs # 3 THEN Rej(401, "Token malformado")
  ELSE LET v == JwtVerify(hdr.token, secret, t) IN
       IF v = "TokenExpiredError" THEN Rej(401, "Token expirado")
       ELSE IF v = "JsonWebTokenError" THEN Rej(401, "Token invalido")
       ELSE IF v # "ok" THEN Rej(401, "Falha na autenticacao")
       ELSE Pass

\* The stages auth has passed when AuthSync returns.
SyncStages(hdr, secret, t) ==
  IF hdr.scheme # "bearer" \/ hdr.token.segs = 0 THEN <<>>
  ELSE IF AuthSync(hdr, secret, t).ok
    THEN <<"CredentialExtracted", "TokenVerified">>
    ELSE <<"CredentialExtracted">>

\* auth without the isActive test
AuthResolveNoActive(found) ==
  IF found.kind = "error" THEN Rej(500, "Erro interno do servidor")
  ELSE IF found.kind = "null" THEN Rej(401, "Usuario nao encontrado")
  ELSE Pass

\* The part of auth that runs once the lookup has settled.
AuthResolve(found) ==
  IF found.kind = "error" THEN Rej(500, "Erro interno do servidor")
  ELSE IF found.kind = "null" THEN Rej(401, "Usuario nao encontrado")
  ELSE IF ~found.isActive THEN Rej(401, "Usuario inativo")
  ELSE Pass

\* auth stamping lastLogin on the account it resolved
AuthStoreStamp(us, found, t) ==
  IF found.kind = "doc" THEN [us EXCEPT ![found.id].lastLogin = t] ELSE us

\* What auth writes to the User collection while resolving: nothing.
AuthStore(us, found, t) == us

\* the callbacks testing the role claim of the token (decoded.role)
RoleTestedFromToken(user, token) == token.role

\* The role that the callbacks of adminAuth / managerAuth test.
RoleTested(user, token) == user.role

\* adminAuth written with the role list of managerAuth
RoleCheckAdminLax(gate, role) ==
  IF gate \in {"adminAuth", "managerAuth"} /\ role \notin {"admin", "manager"}
    THEN Rej(403, "Acesso negado. Apenas administradores ou gerentes.")
  ELSE Pass

\* managerAuth with the negation of its test lost
RoleCheckInverted(gate, role) ==
  IF gate = "adminAuth" /\ role # "admin"
    THEN Rej(403, "Acesso negado. Apenas administradores.")
  ELSE IF gate = "managerAuth" /\ role \in {"admin", "manager"}
    THEN Rej(403, "Acesso negado. Apenas administradores ou gerentes.")
  ELSE Pass

\* The callback handed to auth as next by each gate.
RoleCheck(gate, role) ==
  IF gate = "adminAuth" /\ role # "admin"
    THEN Rej(403, "Acesso negado. Apenas administradores.")
  ELSE IF gate = "managerAuth" /\ role \notin {"admin", "manager"}
    THEN Rej(403, "Acesso negado. Apenas administradores ou gerentes.")
  ELSE Pass

\* ------------------------------------------------------------------- state
Passwords == [u1 |-> "Lima12345", u2 |-> "bobpass"]
Usernames == [u1 |-> "admin", u2 |-> "bob"]
Emails == [u1 |-> "admin@x.io", u2 |-> "bob@x.io"]

NewUser(u, ro, act) ==
  [exists |-> TRUE, username |-> Usernames[u], password |-> Hash(Passwords[u]),
   role |-> ro, isActive |-> act, lastLogin |-> NoTime, email |-> Emails[u]]

\* A Task document, with one checklist item; comments holds the authors of
\* the comments, oldest first.
NewTask(creator, assignee) ==
  [exists |-> TRUE, createdBy |-> creator, assignedTo |-> assignee,
   status |-> "PENDENTE", progress |-> 0, comments |-> <<>>,
   checklist |-> [i1 |-> [completed |-> FALSE, completedBy |-> Absent]],
   updatedAt |-> 0]

TaskIds == {"t1"}
SeedTasks == [t \in TaskIds |-> NewTask("u1", "u1")]

NoLogin == [status |-> 0, error |-> "", token |-> EmptyTok]
NoArgs == [fn |-> "none"]
NoRet == [fn |-> "none"]
NoFresh == [token |-> EmptyTok, id |-> "u1", role |-> "user"]

Init ==
  /\ JWT_SECRET \in {NoSecret, ServerSecret}
  /\ now = 0
  /\ \E ro \in Roles :
       users = [u \in UserIds |->
                  IF u = "u1" THEN NewUser(u, "admin", TRUE)
                  ELSE NewUser(u, ro, TRUE)]
  /\ issued = {}
  /\ loginRes = NoLogin
  /\ fresh = NoFresh
  /\ reqs = [r \in AllSlots |-> IdleReq]
  /\ tasks = SeedTasks
  /\ loggedOut = {}
  /\ args = NoArgs
  /\ ret = NoRet

\* ------------------------------------------------------------------- login
LoginInputs ==
  { <<"", "Lima12345">>, <<"bob", "">>, <<"ghost", "bobpass">>,
    <<"ADMIN", "bobpass">>, <<"ADMIN", "Lima12345">>, <<"bob", "bobpass">> }

\* a payload whose role is the schema's default instead of the account's
LoginTokenDefaultRole(u, us, t, secret) ==
  JwtSign(u, us[u].username, "user", t, secret)

\* The payload and options login hands to jwt.sign.
LoginToken(u, us, t, secret) ==
  JwtSign(u, us[u].username, us[u].role, t, secret)

\* POST /api/auth/login, the whole handler; signed tells whether jwt.sign and
\* the jwt.verify that follows it go through or throw.
LoginWith(name, pw, signed) ==
  /\ Cardinality(issued) < MaxIssued
  /\ UNCHANGED <<JWT_SECRET, now, reqs, loggedOut, tasks, util>>
  /\ IF name = "" \/ pw = ""
       THEN /\ loginRes' = [NoLogin EXCEPT !.status = 400,
                              !.error = "Usuario e senha sao obrigatorios"]
            /\ UNCHANGED <<users, issued, fresh>>
     ELSE IF JWT_SECRET = NoSecret
       THEN /\ loginRes' = [NoLogin EXCEPT !.status = 500,
                              !.error = "Erro de configuracao do servidor"]
            /\ UNCHANGED <<users, issued, fresh>>
     ELSE IF findByUsername(users, name) = {}
       THEN /\ loginRes' = [NoLogin EXCEPT !.status = 401,
                              !.error = "Credenciais invalidas"]
            /\ UNCHANGED <<users, issued, fresh>>
     ELSE LET u == CHOOSE x \in findByUsername(users, name) : TRUE IN
       IF ~comparePassword(users[u].password, pw)
         THEN /\ loginRes' = [NoLogin EXCEPT !.status = 401,
                                !.error = "Credenciais invalidas"]
              /\ UNCHANGED <<users, issued, fresh>>
       ELSE IF ~users[u].isActive
         THEN /\ loginRes' = [NoLogin EXCEPT !.status = 401,
                                !.error = "Usuario inativo"]
              /\ UNCHANGED <<users, issued, fresh>>
       ELSE LET saved == [users EXCEPT ![u].lastLogin = now]
                token == LoginToken(u, saved, now, JWT_SECRET) IN
         /\ users' = saved
         /\ IF ~signed \/ JwtVerify(token, JWT_SECRET, now) # "ok"
              THEN /\ loginRes' = [NoLogin EXCEPT !.status = 500,
                                     !.error = "Erro na geracao do token"]
                   /\ UNCHANGED issued
                   /\ fresh' = NoFresh
              ELSE /\ loginRes' = [status |-> 200, error |-> "", token |-> token]
                   /\ issued' = issued \cup {token}
                   /\ fresh' = [token |-> token, id |-> u, role |-> users[u].role]

\* The login of a server whose jsonwebtoken signs what it is handed.
Login(name, pw) == LoginWith(name, pw, TRUE)

\* ------------------------------------------------------------------- clock
Tick ==
  /\ now < MaxTime
  /\ now' = now + TickStep
  /\ fresh' = NoFresh
  /\ UNCHANGED <<JWT_SECRET, users, issued, loginRes, reqs, loggedOut, tasks,
               util>>

\* --------------------------------------------------------------- the gate
Hdr(sch, tok) == [scheme |-> sch, token |-> tok]

\* Credentials that no login has issued.
BadHeaders ==
  {Hdr("absent", EmptyTok), Hdr("basic", EmptyTok), Hdr("bearer", EmptyTok)}
  \cup { Hdr("bearer", k) : k \in ForgedTokens \cup MalformedTokens }

Call(route, target, body) == [route |-> route, target |-> target, body |-> body]

\* The calls a client makes with a token it was issued.
Calls ==
  { Call("stats", "u1", NoBody),
    Call("update", "u2", [NoBody EXCEPT !.role = {"user"}]),
    Call("update", "u2", [NoBody EXCEPT !.role = {"manager"}]),
    Call("status", "u2", [NoBody EXCEPT !.isActive = {FALSE}]),
    Call("status", "u2", [NoBody EXCEPT !.isActive = {TRUE}]),
    Call("delete", "u2", NoBody) }

\* The calls tried with the other credentials, one per gate.
ProbeCalls ==
  { c \in Calls : c.body.isActive # {TRUE} /\ c.body.role # {"manager"}
                  /\ c.route # "delete" }

GateInputs ==
  { <<c, Hdr("bearer", k)>> : c \in Calls, k \in issued }
  \cup { <<c, h>> : c \in ProbeCalls, h \in BadHeaders }

\* tok is the token of the latest login, and nothing has changed since
IsFresh(tok) == tok.segs = 3 /\ fresh.token = tok

\* a token kept on a list of tokens that are no longer honoured
RevokedByList(tok, out) == tok \in out

\* The server keeps no such list: logout answers and stores nothing.
Revoked(tok, out) == FALSE

\* A request drawn from inputs arrives; auth runs up to the point where it
\* awaits the lookup.
AuthStartOn(r, inputs) ==
  /\ reqs[r].pc = "done"
  /\ \E in \in inputs :
       LET hdr == in[2]
           res == IF Revoked(hdr.token, loggedOut)
                    THEN Rej(401, "Token invalido")
                    ELSE AuthSync(hdr, JWT_SECRET, now)
           req == [IdleReq EXCEPT !.route = in[1].route, !.target = in[1].target,
                     !.body = in[1].body, !.hdr = hdr, !.t0 = now,
                     !.imm = IsFresh(hdr.token),
                     !.stages = SyncStages(hdr, JWT_SECRET, now)] IN
       reqs' = [reqs EXCEPT ![r] =
                  IF res.ok THEN [req EXCEPT !.pc = "lookup"]
                  ELSE [req EXCEPT !.pc = "done", !.status = res.status,
                          !.error = res.error, !.resps = 1]]
  /\ UNCHANGED <<JWT_SECRET, now, users, issued, loginRes, fresh, loggedOut,
               tasks, util>>

AuthStart(r) == AuthStartOn(r, GateInputs)

\* decoded kept in one variable of the module: a request that verified its
\* token while this one was in the middleware has overwritten it
decodedShared(rs, r) ==
  LET others == { s \in DOMAIN rs : s # r /\ rs[s].pc \in {"lookup", "resume"} } IN
  IF others = {} THEN rs[r].hdr.token.userId
  ELSE rs[CHOOSE s \in others : TRUE].hdr.token.userId

\* const decoded = jwt.verify(...): local to the call, its userId is the one
\* of the request's own token
decoded(rs, r) == rs[r].hdr.token.userId

\* User.findById(decoded.userId) settles: a document, null, or an error.
AuthLookup(r) ==
  /\ reqs[r].pc = "lookup"
  /\ \E found \in {findById(users, decoded(reqs, r)), DbError} :
       reqs' = [reqs EXCEPT ![r].pc = "resume", ![r].found = found,
                  ![r].imm = (reqs[r].imm /\ IsFresh(reqs[r].hdr.token))]
  /\ UNCHANGED <<JWT_SECRET, now, users, issued, loginRes, fresh, loggedOut,
               tasks, util>>

\* auth resumes after the await, and the gate's callback runs inside next.
AuthFinish(r) ==
  /\ reqs[r].pc = "resume"
  /\ LET q == reqs[r]
         res == AuthResolve(q.found)
         gate == GateOf(q.route)
         chk == RoleCheck(gate, RoleTested(q.found, q.hdr.token))
         resolved == [q EXCEPT !.user = q.found,
                        !.stages = Append(q.stages, "PrincipalResolved")] IN
     /\ reqs' = [reqs EXCEPT ![r] =
          IF ~res.ok
            THEN [q EXCEPT !.pc = "done", !.status = res.status,
                    !.error = res.error, !.resps = q.resps + 1]
          ELSE IF ~chk.ok
            THEN [resolved EXCEPT !.pc = "done", !.status = chk.status,
                    !.error = chk.error, !.resps = q.resps + 1]
          ELSE [resolved EXCEPT !.pc = "handler", !.nexts = q.nexts + 1,
                  !.stages = IF gate = "auth" THEN resolved.stages
                             ELSE Append(resolved.stages, "RoleChecked")]]
     /\ users' = AuthStore(users, q.found, now)
     /\ fresh' = IF users' = users THEN fresh ELSE NoFresh
  /\ UNCHANGED <<JWT_SECRET, now, issued, loginRes, loggedOut, tasks, util>>

\* --------------------------------------------------- handlers behind the gate
Val(set) == CHOOSE x \in set : TRUE

\* PATCH /api/users/:id/status: the status sent and the collection afterwards.
StatusHandler(us, me, id, body) ==
  LET isActive == Val(body.isActive) IN
  IF ~us[id].exists THEN [status |-> 404, users |-> us]
  ELSE IF id = me.id /\ ~isActive THEN [status |-> 400, users |-> us]
  ELSE [status |-> 200, users |-> [us EXCEPT ![id].isActive = isActive]]

\* The unique indexes of the schema, as save meets them: no other document
\* holds the same username or the same email, compared character by
\* character.
uniqueIndex(us, id, doc) ==
  \A u \in UserIds \ {id} :
    us[u].exists => us[u].username # doc.username /\ us[u].email # doc.email

\* User.findOne({ email: email.toLowerCase() }) found a document
emailTaken(us, email) ==
  \E u \in UserIds : us[u].exists /\ us[u].email = Lower(email)

\* Object.assign(user, updates): the fields sent replace the document's; the
\* schema lowercases an email it is handed, and leaves a username as sent.
assign(doc, updates) ==
  LET withRole == IF updates.role = Absent THEN doc
                  ELSE [doc EXCEPT !.role = Val(updates.role)]
      withActive == IF updates.isActive = Absent THEN withRole
                    ELSE [withRole EXCEPT !.isActive = Val(updates.isActive)]
      withName == IF updates.username = Absent THEN withActive
                  ELSE [withActive EXCEPT !.username = Val(updates.username)] IN
  IF updates.email = Absent THEN withName
  ELSE [withName EXCEPT !.email = Lower(Val(updates.email))]

\* an update that keeps the role and isActive a user who is no admin sent
UpdateHandlerNoStrip(us, me, id, body) ==
  IF id # me.id /\ me.role # "admin" THEN [status |-> 403, users |-> us]
  ELSE IF ~us[id].exists THEN [status |-> 404, users |-> us]
  ELSE IF body.email # Absent /\ Val(body.email) # us[id].email
          /\ emailTaken(us, Val(body.email))
    THEN [status |-> 400, users |-> us]
  ELSE LET doc == assign(us[id], body) IN
       IF uniqueIndex(us, id, doc)
         THEN [status |-> 200, users |-> [us EXCEPT ![id] = doc]]
         ELSE [status |-> 500, users |-> us]

\* PUT /api/users/:id
UpdateHandler(us, me, id, body) ==
  IF id # me.id /\ me.role # "admin" THEN [status |-> 403, users |-> us]
  ELSE IF ~us[id].exists THEN [status |-> 404, users |-> us]
  ELSE LET updates == IF me.role # "admin"
                        THEN [body EXCEPT !.role = Absent, !.isActive = Absent]
                        ELSE body IN
       IF updates.email # Absent /\ Val(updates.email) # us[id].email
          /\ emailTaken(us, Val(updates.email))
         THEN [status |-> 400, users |-> us]
       ELSE LET doc == assign(us[id], updates) IN
         IF uniqueIndex(us, id, doc)
           THEN [status |-> 200, users |-> [us EXCEPT ![id] = doc]]
           ELSE [status |-> 500, users |-> us]

\* the id a new document gets: one no document holds
FreeIds(us) == { u \in UserIds : ~us[u].exists }

\* POST /api/users
CreateHandler(us, body) ==
  IF body.username = Absent \/ body.password = "" \/ body.email = Absent
    THEN [status |-> 400, users |-> us]
  ELSE IF \E u \in UserIds :
            /\ us[u].exists
            /\ \/ us[u].username = Lower(Val(body.username))
               \/ us[u].email = Lower(Val(body.email))
    THEN [status |-> 400, users |-> us]
  ELSE IF FreeIds(us) = {} THEN [status |-> 500, users |-> us]
  ELSE LET id == CHOOSE u \in FreeIds(us) : TRUE
           doc == [exists |-> TRUE, username |-> Lower(Val(body.username)),
                   password |-> Hash(body.password),
                   role |-> IF body.role = Absent THEN "user" ELSE Val(body.role),
                   isActive |-> TRUE, lastLogin |-> NoTime,
                   email |-> Lower(Val(body.email))] IN
       IF uniqueIndex(us, id, doc)
         THEN [status |-> 201, users |-> [us EXCEPT ![id] = doc]]
         ELSE [status |-> 500, users |-> us]

\* PUT /api/users/profile/me: password, role, isActive and username are
\* deleted from the body before anything is stored.
ProfileHandler(us, me, body) ==
  LET updates == [body EXCEPT !.role = Absent, !.isActive = Absent,
                    !.username = Absent] IN
  IF updates.email # Absent /\ Val(updates.email) # me.email
     /\ emailTaken(us, Val(updates.email))
    THEN [status |-> 400, users |-> us]
  ELSE IF ~us[me.id].exists THEN [status |-> 200, users |-> us]
  ELSE LET doc == assign(us[me.id], updates) IN
       IF uniqueIndex(us, me.id, doc)
         THEN [status |-> 200, users |-> [us EXCEPT ![me.id] = doc]]
         ELSE [status |-> 500, users |-> us]

\* DELETE /api/users/:id
DeleteHandler(us, me, id) ==
  IF ~us[id].exists THEN [status |-> 404, users |-> us]
  ELSE IF id = me.id THEN [status |-> 400, users |-> us]
  ELSE [status |-> 200, users |-> [us EXCEPT ![id].exists = FALSE]]

\* String.prototype.length of the passwords in use
StrLen(s) ==
  CASE s = "" -> 0
    [] s = "abc" -> 3
    [] s = "bobpass" -> 7
    [] s = "newpass1" -> 8
    [] s = "Lima12345" -> 9

\* a change of password that does not compare the current one
ChangePasswordHandlerNoMatch(us, me, body) ==
  IF body.currentPassword = "" \/ body.newPassword = ""
    THEN [status |-> 400, users |-> us]
  ELSE IF StrLen(body.newPassword) < 6 THEN [status |-> 400, users |-> us]
  ELSE IF ~us[me.id].exists THEN [status |-> 500, users |-> us]
  ELSE [status |-> 200,
        users |-> [us EXCEPT ![me.id].password = Hash(body.newPassword)]]

\* PUT /api/auth/change-password
ChangePasswordHandler(us, me, body) ==
  IF body.currentPassword = "" \/ body.newPassword = ""
    THEN [status |-> 400, users |-> us]
  ELSE IF StrLen(body.newPassword) < 6 THEN [status |-> 400, users |-> us]
  ELSE IF ~us[me.id].exists THEN [status |-> 500, users |-> us]
  ELSE IF ~comparePassword(us[me.id].password, body.currentPassword)
    THEN [status |-> 400, users |-> us]
  ELSE [status |-> 200,
        users |-> [us EXCEPT ![me.id].password = Hash(body.newPassword)]]

\* ------------------------------------------------------------ task routes
\* What a task request sends: the fields of req.body and the :itemId.
NoTaskBody ==
  [status |-> Absent, text |-> "", completed |-> Absent, itemId |-> "i1"]

\* Task.findById(req.params.id) found a document
taskFound(ts, id) == id \in TaskIds /\ ts[id].exists

\* taskSchema.pre('save')
taskSave(task, t) == [task EXCEPT !.updatedAt = t]

\* an edit that skips the permission test
TaskUpdateHandlerOpen(ts, me, id, body, t) ==
  IF ~taskFound(ts, id) THEN [status |-> 404, tasks |-> ts]
  ELSE LET task == ts[id]
           done == body.status = {"CONCLUIDA"} /\ task.status # "CONCLUIDA"
           withStatus == IF body.status = Absent THEN task
                         ELSE [task EXCEPT !.status = Val(body.status)]
           doc == IF done THEN [withStatus EXCEPT !.progress = 100]
                  ELSE withStatus IN
       [status |-> 200, tasks |-> [ts EXCEPT ![id] = taskSave(doc, t)]]

\* PUT /api/tasks/:id
TaskUpdateHandler(ts, me, id, body, t) ==
  IF ~taskFound(ts, id) THEN [status |-> 404, tasks |-> ts]
  ELSE LET task == ts[id]
           canEdit == \/ task.createdBy = me.id
                      \/ task.assignedTo = me.id
                      \/ me.role \in {"admin", "manager"}
           done == body.status = {"CONCLUIDA"} /\ task.status # "CONCLUIDA"
           withStatus == IF body.status = Absent THEN task
                         ELSE [task EXCEPT !.status = Val(body.status)]
           doc == IF done THEN [withStatus EXCEPT !.progress = 100]
                  ELSE withStatus IN
       IF ~canEdit THEN [status |-> 403, tasks |-> ts]
       ELSE [status |-> 200, tasks |-> [ts EXCEPT ![id] = taskSave(doc, t)]]

\* DELETE /api/tasks/:id
TaskDeleteHandler(ts, id) ==
  IF ~taskFound(ts, id) THEN [status |-> 404, tasks |-> ts]
  ELSE [status |-> 200, tasks |-> [ts EXCEPT ![id].exists = FALSE]]

\* POST /api/tasks/:id/comments
TaskCommentHandler(ts, me, id, body, t) ==
  IF body.text = "" THEN [status |-> 400, tasks |-> ts]
  ELSE IF ~taskFound(ts, id) THEN [status |-> 404, tasks |-> ts]
  ELSE LET doc == [ts[id] EXCEPT !.comments = Append(@, me.id)] IN
       [status |-> 201, tasks |-> [ts EXCEPT ![id] = taskSave(doc, t)]]

\* Math.round((completedItems / totalItems) * 100)
checklistProgress(checklist) ==
  LET totalItems == Cardinality(DOMAIN checklist)
      completedItems ==
        Cardinality({ i \in DOMAIN checklist : checklist[i].completed }) IN
  IF totalItems > 0
    THEN (completedItems * 200 + totalItems) \div (2 * totalItems)
    ELSE 0

\* PUT /api/tasks/:id/checklist/:itemId
TaskChecklistHandler(ts, me, id, body, t) ==
  IF ~taskFound(ts, id) THEN [status |-> 404, tasks |-> ts]
  ELSE IF body.itemId \notin DOMAIN ts[id].checklist
    THEN [status |-> 404, tasks |-> ts]
  ELSE LET completed == Val(body.completed)
           item == [completed |-> completed,
                    completedBy |-> IF completed THEN {me.id} ELSE Absent]
           checklist == [ts[id].checklist EXCEPT ![body.itemId] = item]
           doc == [ts[id] EXCEPT !.checklist = checklist,
                     !.progress = checklistProgress(checklist)] IN
       [status |-> 200, tasks |-> [ts EXCEPT ![id] = taskSave(doc, t)]]

\* The route handler of an admitted request runs and answers.
Handler(r) ==
  /\ reqs[r].pc = "handler"
  /\ LET q == reqs[r]
         out == CASE q.route = "status" -> StatusHandler(users, q.user, q.target, q.body)
                  [] q.route = "update" -> UpdateHandler(users, q.user, q.target, q.body)
                  [] q.route = "delete" -> DeleteHandler(users, q.user, q.target)
                  [] q.route = "changePassword" ->
                       ChangePasswordHandler(users, q.user, q.body)
                  [] q.route = "create" -> CreateHandler(users, q.body)
                  [] q.route = "profile" -> ProfileHandler(users, q.user, q.body)
                  [] OTHER -> [status |-> 200, users |-> users]
         tout == CASE q.route = "taskUpdate" ->
                        TaskUpdateHandler(tasks, q.user, q.target, q.body, now)
                   [] q.route = "taskDelete" -> TaskDeleteHandler(tasks, q.target)
                   [] q.route = "taskComment" ->
                        TaskCommentHandler(tasks, q.user, q.target, q.body, now)
                   [] q.route = "taskChecklist" ->
                        TaskChecklistHandler(tasks, q.user, q.target, q.body, now)
                   [] OTHER -> [status |-> out.status, tasks |-> tasks] IN
     /\ users' = out.users
     /\ tasks' = tout.tasks
     /\ reqs' = [reqs EXCEPT ![r].pc = "done", ![r].hstatus = tout.status]
     /\ fresh' = IF out.users = users THEN fresh ELSE NoFresh
     /\ loggedOut' =
          IF q.route \in {"logout", "changePassword"} /\ out.status = 200
            THEN loggedOut \cup {q.hdr.token}
            ELSE loggedOut
  /\ UNCHANGED <<JWT_SECRET, now, issued, loginRes, util>>

\* ----------------------------------------------------------- specification
Next ==
  \/ \E in \in LoginInputs : Login(in[1], in[2])
  \/ Tick
  \/ \E r \in Slots : AuthStart(r)
  \/ \E r \in Slots : AuthLookup(r)
  \/ \E r \in Slots : AuthFinish(r)
  \/ \E r \in Slots : Handler(r)

Spec == Init /\ [][Next]_vars

\* ------------------------------------------------ sessions: logout, password
\* The calls of a holder who ends the session or changes the password, and
\* the calls made with the same token afterwards.
SessionCalls ==
  { Call("logout", "u1", NoBody),
    Call("changePassword", "u1",
         [NoBody EXCEPT !.currentPassword = "bobpass", !.newPassword = "newpass1"]),
    Call("changePassword", "u1",
         [NoBody EXCEPT !.currentPassword = "Lima12345", !.newPassword = "abc"]),
    Call("stats", "u1", NoBody),
    Call("status", "u2", [NoBody EXCEPT !.isActive = {FALSE}]) }

SessionInputs == { <<c, Hdr("bearer", k)>> : c \in SessionCalls, k \in issued }

SessionLogins ==
  { <<"ADMIN", "Lima12345">>, <<"bob", "bobpass">>, <<"bob", "newpass1">> }

SessionStart(r) == AuthStartOn(r, SessionInputs)

NextSession ==
  \/ \E in \in SessionLogins : Login(in[1], in[2])
  \/ Tick
  \/ \E r \in Slots : SessionStart(r)
  \/ \E r \in Slots : AuthLookup(r)
  \/ \E r \in Slots : AuthFinish(r)
  \/ \E r \in Slots : Handler(r)

SpecSession == Init /\ [][NextSession]_vars

\* -------------------------------------------------- two requests in flight
PairCalls ==
  { Call("stats", "u1", NoBody),
    Call("status", "u2", [NoBody EXCEPT !.isActive = {FALSE}]) }

PairInputs == { <<c, Hdr("bearer", k)>> : c \in PairCalls, k \in issued }

PairLogins == { <<"ADMIN", "Lima12345">>, <<"bob", "bobpass">> }

PairStart(r) == AuthStartOn(r, PairInputs)

NextPair ==
  \/ \E in \in PairLogins : Login(in[1], in[2])
  \/ \E r \in AllSlots : PairStart(r)
  \/ \E r \in AllSlots : AuthLookup(r)
  \/ \E r \in AllSlots : AuthFinish(r)
  \/ \E r \in AllSlots : Handler(r)

SpecPair == Init /\ [][NextPair]_vars

\* ---------------------------------------------------------------- accounts
\* The calls that create, edit, switch off and delete accounts.
AccountCalls ==
  { Call("create", "u1", [NoBody EXCEPT !.username = {"Bob"},
                            !.email = {"Bob@x.io"}, !.password = "newpass1"]),
    Call("create", "u1", [NoBody EXCEPT !.username = {"ann"},
                            !.email = {"ann@x.io"}, !.password = "newpass1",
                            !.role = {"manager"}]),
    Call("update", "u2", [NoBody EXCEPT !.username = {"ADMIN"}]),
    Call("update", "u2", [NoBody EXCEPT !.username = {"admin"}]),
    Call("update", "u2", [NoBody EXCEPT !.email = {"admin@x.io"}]),
    Call("update", "u2", [NoBody EXCEPT !.role = {"admin"}]),
    Call("update", "u2", [NoBody EXCEPT !.isActive = {FALSE}]),
    Call("update", "u1", [NoBody EXCEPT !.isActive = {FALSE}]),
    Call("status", "u1", [NoBody EXCEPT !.isActive = {FALSE}]),
    Call("profile", "u1", [NoBody EXCEPT !.isActive = {FALSE},
                             !.role = {"admin"}, !.email = {"Bob@x.io"}]),
    Call("delete", "u2", NoBody) }

\* A create arrives only while an id is free for the document it may store.
AccountInputs ==
  { <<c, Hdr("bearer", k)>> :
      c \in { d \in AccountCalls : d.route = "create" => FreeIds(users) # {} },
      k \in issued }

AccountLogins == { <<"admin", "Lima12345">>, <<"bob", "bobpass">> }

AccountStart(r) == AuthStartOn(r, AccountInputs)

NextAccounts ==
  \/ \E in \in AccountLogins : Login(in[1], in[2])
  \/ \E r \in Slots : AccountStart(r)
  \/ \E r \in Slots : AuthLookup(r)
  \/ \E r \in Slots : AuthFinish(r)
  \/ \E r \in Slots : Handler(r)

SpecAccounts == Init /\ [][NextAccounts]_vars

\* ------------------------------------------------------------------ tasks
MaxComments == 1

\* The calls on a task: edits, a comment, the checklist item, the deletion,
\* and an edit of a task that does not exist.
TaskCalls ==
  { Call("taskUpdate", "t1", [NoTaskBody EXCEPT !.status = {"CONCLUIDA"}]),
    Call("taskUpdate", "t1", [NoTaskBody EXCEPT !.status = {"CANCELADA"}]),
    Call("taskUpdate", "t9", [NoTaskBody EXCEPT !.status = {"CANCELADA"}]),
    Call("taskComment", "t1", [NoTaskBody EXCEPT !.text = "ok"]),
    Call("taskComment", "t1", NoTaskBody),
    Call("taskChecklist", "t1", [NoTaskBody EXCEPT !.completed = {TRUE}]),
    Call("taskChecklist", "t1", [NoTaskBody EXCEPT !.completed = {FALSE}]),
    Call("taskChecklist", "t1", [NoTaskBody EXCEPT !.completed = {TRUE},
                                   !.itemId = "i9"]),
    Call("taskDelete", "t1", NoTaskBody) }

\* A comment arrives only while the task holds fewer than MaxComments.
TaskInputs ==
  { <<c, Hdr("bearer", k)>> :
      c \in { d \in TaskCalls :
                (d.route = "taskComment" /\ d.body.text # "") =>
                  \A t \in TaskIds : Len(tasks[t].comments) < MaxComments },
      k \in issued }

TaskStart(r) == AuthStartOn(r, TaskInputs)

\* The accounts and the task the requests meet: created by and assigned to
\* any of the accounts.
InitTasks ==
  /\ JWT_SECRET = ServerSecret
  /\ now = 0
  /\ \E ro \in Roles :
       users = [u \in UserIds |->
                  IF u = "u1" THEN NewUser(u, "admin", TRUE)
                  ELSE NewUser(u, ro, TRUE)]
  /\ \E creator \in UserIds, assignee \in UserIds :
       tasks = [t \in TaskIds |-> NewTask(creator, assignee)]
  /\ issued = {}
  /\ loginRes = NoLogin
  /\ fresh = NoFresh
  /\ reqs = [r \in AllSlots |-> IdleReq]
  /\ loggedOut = {}
  /\ args = NoArgs
  /\ ret = NoRet

NextTasks ==
  \/ \E in \in AccountLogins : Login(in[1], in[2])
  \/ \E r \in Slots : TaskStart(r)
  \/ \E r \in Slots : AuthLookup(r)
  \/ \E r \in Slots : AuthFinish(r)
  \/ \E r \in Slots : Handler(r)

SpecTasks == InitTasks /\ [][NextTasks]_vars

\* ------------------------------------------------------- login attempts
\* The accounts a login may meet: the second one active or switched off.
InitLogin ==
  /\ JWT_SECRET \in {NoSecret, ServerSecret}
  /\ now = 0
  /\ \E ro \in Roles, act \in BOOLEAN :
       users = [u \in UserIds |->
                  IF u = "u1" THEN NewUser(u, "admin", TRUE)
                  ELSE NewUser(u, ro, act)]
  /\ issued = {}
  /\ loginRes = NoLogin
  /\ fresh = NoFresh
  /\ reqs = [r \in AllSlots |-> IdleReq]
  /\ tasks = SeedTasks
  /\ loggedOut = {}
  /\ args = NoArgs
  /\ ret = NoRet

\* A login attempt, with jsonwebtoken signing or throwing.
Attempt ==
  \E in \in LoginInputs, signed \in BOOLEAN : LoginWith(in[1], in[2], signed)

NextLogin ==
  \/ Attempt
  \/ Tick

SpecLogin == InitLogin /\ [][NextLogin]_vars

\* ------------------------------------------------------- startup bootstrap
\* userSchema.pre('save') on a new document: the password it holds is hashed.
preSave(doc) == [doc EXCEPT !.password = Hash(doc.password)]

\* createAdminUser of app.js: the password is hashed with bcrypt.hash, the
\* document is built with that hash as its password, and save() runs.
createAdminUser(us, connected) ==
  IF ~connected THEN [created |-> FALSE, users |-> us]
  ELSE IF \E u \in UserIds : us[u].exists /\ us[u].username = "admin"
    THEN [created |-> FALSE, users |-> us]
  ELSE LET id == CHOOSE u \in FreeIds(us) : TRUE
           hashedPassword == Hash("Lima12345")
           admin == [exists |-> TRUE, username |-> "admin",
                     password |-> hashedPassword, role |-> "admin",
                     isActive |-> TRUE, lastLogin |-> NoTime,
                     email |-> "admin@x.io"]
           saved == preSave(admin) IN
       IF uniqueIndex(us, id, saved)
         THEN [created |-> TRUE, users |-> [us EXCEPT ![id] = saved]]
         ELSE [created |-> FALSE, users |-> us]

\* The database the server finds when it starts: with or without the admin
\* account, and connected or not.
InitBoot ==
  /\ JWT_SECRET \in {NoSecret, ServerSecret}
  /\ now = 0
  /\ \E ro \in Roles, hadAdmin \in BOOLEAN, connected \in BOOLEAN :
       /\ users = [u \in UserIds |->
                     IF u = "u1"
                       THEN [NewUser(u, "admin", TRUE) EXCEPT !.exists = hadAdmin]
                       ELSE NewUser(u, ro, TRUE)]
       /\ args = [fn |-> "createAdminUser", hadAdmin |-> hadAdmin,
                  connected |-> connected]
  /\ issued = {}
  /\ loginRes = NoLogin
  /\ fresh = NoFresh
  /\ reqs = [r \in AllSlots |-> IdleReq]
  /\ tasks = SeedTasks
  /\ loggedOut = {}
  /\ ret = NoRet

Boot ==
  /\ args.fn = "createAdminUser" /\ ret = NoRet
  /\ LET out == createAdminUser(users, args.connected) IN
       /\ users' = out.users
       /\ ret' = [fn |-> "createAdminUser", created |-> out.created]
  /\ fresh' = NoFresh
  /\ UNCHANGED <<JWT_SECRET, now, issued, loginRes, reqs, loggedOut, tasks,
               args>>

\* app.listen runs once connectDB has awaited createAdminUser.
Booted == ret # NoRet /\ args.fn = "createAdminUser"

NextBoot ==
  \/ Boot
  \/ Booted /\ \E in \in LoginInputs : Login(in[1], in[2])
  \/ Booted /\ Tick

SpecBoot == InitBoot /\ [][NextBoot]_vars

\* ------------------------------------------------------- validateRequest
\* A JavaScript value: t is what typeof gives, the other fields hold the
\* number, the string, the boolean or the item count of an array.
Undefined == [t |-> "undefined", n |-> 0, s |-> "", b |-> FALSE]
Num(n) == [t |-> "number", n |-> n, s |-> "", b |-> FALSE]
Str(s) == [t |-> "string", n |-> 0, s |-> s, b |-> FALSE]
Bool(b) == [t |-> "boolean", n |-> 0, s |-> "", b |-> b]
Arr(n) == [t |-> "object", n |-> n, s |-> "array", b |-> FALSE]

\* !value
Falsy(v) ==
  \/ v.t = "undefined"
  \/ v.t = "number" /\ v.n = 0
  \/ v.t = "string" /\ v.s = ""
  \/ v.t = "boolean" /\ ~v.b

\* typeof value === 'string' && value.trim() === ''
Blank(v) == v.t = "string" /\ v.s \in {"", "  "}

\* value.length of the strings in use
Length(str) ==
  CASE str = "" -> 0
    [] str = "  " -> 2
    [] str = "ab" -> 2
    [] str = "user" -> 4
    [] str = "admin" -> 5
    [] str = "a@b.co" -> 6
    [] str = "manager" -> 7
    [] str = "toolongname" -> 11

\* new RegExp(rules.pattern).test(value) for the pattern '^[a-zA-Z0-9_]+$'
PatternTest(pattern, str) ==
  pattern = "alnum" => str \in {"ab", "user", "admin", "manager", "toolongname"}

\* /^[^\s@]+@[^\s@]+\.[^\s@]+$/.test(value)
EmailTest(v) == v.t = "string" /\ v.s = "a@b.co"

\* Array.isArray(value)
IsArray(v) == v.t = "object" /\ v.s = "array"

\* A rule that declares nothing; 0, "none", {} and Undefined stand for a key
\* the rule does not have.
NoRule ==
  [type |-> "none", required |-> FALSE, minLength |-> 0, maxLength |-> 0,
   pattern |-> "none", min |-> Absent, max |-> Absent, minItems |-> 0,
   maxItems |-> 0, enum |-> {}, format |-> "none", default |-> Undefined]

\* one turn of the loop over Object.entries(schema)
validateField(field, rules, acc) ==
  LET value == acc.data[field]
      err(kind) == <<field, kind>>
      when(cond, kind) == IF cond THEN <<err(kind)>> ELSE <<>> IN
  IF rules.required /\ (Falsy(value) \/ Blank(value))
    THEN [acc EXCEPT !.missingFields = Append(@, field)]
  ELSE IF Falsy(value) /\ ~rules.required
    THEN IF rules.default # Undefined
           THEN [acc EXCEPT !.data[field] = rules.default]
           ELSE acc
  ELSE IF rules.type # "none" /\ value.t # rules.type
    THEN [acc EXCEPT !.errors = Append(@, err("type"))]
  ELSE
    LET strings == IF rules.type = "string" /\ value.t = "string"
                     THEN when(rules.minLength # 0
                               /\ Length(value.s) < rules.minLength, "minLength")
                          \o when(rules.maxLength # 0
                                  /\ Length(value.s) > rules.maxLength, "maxLength")
                          \o when(~PatternTest(rules.pattern, value.s), "pattern")
                     ELSE <<>>
        numbers == IF rules.type = "number" /\ value.t = "number"
                     THEN when(rules.min # Absent /\ value.n < Val(rules.min), "min")
                          \o when(rules.max # Absent /\ value.n > Val(rules.max), "max")
                     ELSE <<>>
        arrays == IF rules.type = "array" /\ IsArray(value)
                    THEN when(rules.minItems # 0 /\ value.n < rules.minItems, "minItems")
                         \o when(rules.maxItems # 0 /\ value.n > rules.maxItems, "maxItems")
                    ELSE <<>>
        enums == when(rules.enum # {}
                      /\ ~(value.t = "string" /\ value.s \in rules.enum), "enum")
        emails == when(rules.format = "email" /\ ~EmailTest(value), "email") IN
    [acc EXCEPT !.errors = @ \o strings \o numbers \o arrays \o enums \o emails]

RECURSIVE validateLoop(_, _, _)
validateLoop(schema, i, acc) ==
  IF i > Len(schema) THEN acc
  ELSE validateLoop(schema, i + 1,
                    validateField(schema[i].field, schema[i].rules, acc))

\* validateRequest(schema, data); data in the result is the object passed in,
\* with the defaults written into it.
validateRequest(schema, data) ==
  LET acc == validateLoop(schema, 1,
                          [missingFields |-> <<>>, errors |-> <<>>, data |-> data]) IN
  [fn |-> "validateRequest",
   isValid |-> (Len(acc.missingFields) = 0 /\ Len(acc.errors) = 0),
   missingFields |-> acc.missingFields, errors |-> acc.errors, data |-> acc.data]

\* The rule sets: one in the shape of commonSchemas.user, one for a listing.
Field(name, rules) == [field |-> name, rules |-> rules]

createSchema ==
  << Field("username", [NoRule EXCEPT !.type = "string", !.required = TRUE,
                          !.minLength = 3, !.maxLength = 5, !.pattern = "alnum"]),
     Field("email", [NoRule EXCEPT !.type = "string", !.required = TRUE,
                       !.format = "email", !.maxLength = 6]),
     Field("name", [NoRule EXCEPT !.type = "string", !.required = TRUE,
                      !.minLength = 2, !.maxLength = 5]),
     Field("role", [NoRule EXCEPT !.type = "string",
                      !.enum = {"admin", "manager", "user"},
                      !.default = Str("user")]) >>

listSchema ==
  << Field("limit", [NoRule EXCEPT !.type = "number", !.min = {1}, !.max = {100},
                       !.default = Num(10)]),
     Field("q", [NoRule EXCEPT !.type = "string", !.minLength = 2,
                   !.maxLength = 5]),
     Field("tags", [NoRule EXCEPT !.type = "array", !.maxItems = 2]),
     Field("active", [NoRule EXCEPT !.type = "boolean", !.default = Bool(TRUE)]) >>

Schema(name) == IF name = "create" THEN createSchema ELSE listSchema

FieldsOf(schema) == { schema[i].field : i \in 1..Len(schema) }

\* The values a client may send for a field.
Pool ==
  { Undefined, Num(0), Num(5), Num(200), Str(""), Str("  "), Str("ab"),
    Str("admin"), Str("toolongname"), Str("a@b.co"), Bool(FALSE), Bool(TRUE),
    Arr(1) }

\* req.body: the fields of the rule set and one field no rule mentions
Bodies(schema) ==
  { [f \in FieldsOf(schema) \cup {"extra"} |->
       IF f = "extra" THEN x ELSE d[f]] :
      d \in [FieldsOf(schema) -> Pool], x \in {Undefined, Str("ab")} }

\* The server at rest, for the runs that study one utility call.
gateVars ==
  <<JWT_SECRET, now, users, issued, loginRes, fresh, reqs, loggedOut, tasks>>

AtRest ==
  /\ JWT_SECRET = ServerSecret
  /\ now = 0
  /\ users = [u \in UserIds |->
                NewUser(u, IF u = "u1" THEN "admin" ELSE "user", TRUE)]
  /\ issued = {}
  /\ loginRes = NoLogin
  /\ fresh = NoFresh
  /\ reqs = [r \in AllSlots |-> IdleReq]
  /\ tasks = SeedTasks
  /\ loggedOut = {}

InitValidate ==
  /\ AtRest
  /\ \E name \in {"create", "list"} : \E data \in Bodies(Schema(name)) :
       args = [fn |-> "validateRequest", schema |-> name, data |-> data]
  /\ ret = NoRet

\* const validation = validateRequest(schema, req.body)
Validate ==
  /\ args.fn = "validateRequest" /\ ret = NoRet
  /\ ret' = validateRequest(Schema(args.schema), args.data)
  /\ UNCHANGED <<gateVars, args>>

NextValidate == Validate

SpecValidate == InitValidate /\ [][NextValidate]_vars

\* ------------------------------------------------------------- pagination
\* Math.floor in place of Math.ceil
CeilFloor(total, limit) == total \div limit

\* Math.ceil(total / limit) for total >= 0 and limit > 0
Ceil(total, limit) ==
  IF total % limit = 0 THEN total \div limit ELSE total \div limit + 1

\* a last page that still announces a next one
createPaginationInclusive(page, limit, total) ==
  LET totalPages == Ceil(total, limit) IN
  [fn |-> "createPagination", page |-> page, limit |-> limit, total |-> total,
   totalPages |-> totalPages,
   hasNext |-> page <= totalPages, hasPrev |-> page > 1,
   nextPage |-> IF page <= totalPages THEN {page + 1} ELSE {},
   prevPage |-> IF page > 1 THEN {page - 1} ELSE {}]

\* createPagination(page, limit, total); {} stands for null
createPagination(page, limit, total) ==
  LET totalPages == Ceil(total, limit) IN
  [fn |-> "createPagination", page |-> page, limit |-> limit, total |-> total,
   totalPages |-> totalPages,
   hasNext |-> page < totalPages, hasPrev |-> page > 1,
   nextPage |-> IF page < totalPages THEN {page + 1} ELSE {},
   prevPage |-> IF page > 1 THEN {page - 1} ELSE {}]

\* the pagination object of ApiResponse.paginated(res, data, pagination)
paginated(pagination) ==
  [fn |-> "paginated", page |-> pagination.page, limit |-> pagination.limit,
   total |-> pagination.total,
   totalPages |-> Ceil(pagination.total, pagination.limit),
   hasNext |-> pagination.page < Ceil(pagination.total, pagination.limit),
   hasPrev |-> pagination.page > 1,
   nextPage |-> {}, prevPage |-> {}]

InitPaginate ==
  /\ AtRest
  /\ \E fn \in {"createPagination", "paginated"} :
     \E page \in 0..MaxPage, limit \in 1..MaxLimit, total \in 0..MaxTotal :
       args = [fn |-> fn, page |-> page, limit |-> limit, total |-> total]
  /\ ret = NoRet

Paginate ==
  /\ args.fn \in {"createPagination", "paginated"} /\ ret = NoRet
  /\ ret' = IF args.fn = "createPagination"
              THEN createPagination(args.page, args.limit, args.total)
              ELSE paginated(args)
  /\ UNCHANGED <<gateVars, args>>

NextPaginate == Paginate

SpecPaginate == InitPaginate /\ [][NextPaginate]_vars

\* -------------------------------------------------------- error responses
\* "" stands for a key the response does not have.
NoField == ""

\* a table that falls back on the code of a 500
getErrorCodeDefault500(statusCode) ==
  CASE statusCode = 400 -> "BAD_REQUEST"
    [] statusCode = 401 -> "UNAUTHORIZED"
    [] statusCode = 403 -> "FORBIDDEN"
    [] statusCode = 404 -> "NOT_FOUND"
    [] statusCode = 409 -> "CONFLICT"
    [] statusCode = 422 -> "VALIDATION_ERROR"
    [] statusCode = 429 -> "RATE_LIMIT_EXCEEDED"
    [] statusCode = 500 -> "INTERNAL_ERROR"
    [] statusCode = 503 -> "SERVICE_UNAVAILABLE"
    [] OTHER -> "INTERNAL_ERROR"

\* getErrorCode(statusCode): codes[statusCode] || 'UNKNOWN_ERROR'
getErrorCode(statusCode) ==
  CASE statusCode = 400 -> "BAD_REQUEST"
    [] statusCode = 401 -> "UNAUTHORIZED"
    [] statusCode = 403 -> "FORBIDDEN"
    [] statusCode = 404 -> "NOT_FOUND"
    [] statusCode = 409 -> "CONFLICT"
    [] statusCode = 422 -> "VALIDATION_ERROR"
    [] statusCode = 429 -> "RATE_LIMIT_EXCEEDED"
    [] statusCode = 500 -> "INTERNAL_ERROR"
    [] statusCode = 503 -> "SERVICE_UNAVAILABLE"
    [] OTHER -> "UNKNOWN_ERROR"

\* sendResponse(res, statusCode, data, message, error, meta): the status and
\* the success, code and details keys of the body
sendResponse(statusCode, data) ==
  IF statusCode < 400
    THEN [status |-> statusCode, success |-> TRUE, code |-> NoField,
          details |-> NoField]
    ELSE [status |-> statusCode, success |-> FALSE,
          code |-> getErrorCode(statusCode), details |-> data]

\* ApiResponse.error(res, error, statusCode, details, code)
error(statusCode, details, code) ==
  [status |-> statusCode, success |-> FALSE, code |-> code, details |-> details]

notFound == error(404, NoField, "RESOURCE_NOT_FOUND")
unauthorized == error(401, NoField, "UNAUTHORIZED")
forbidden == error(403, NoField, "FORBIDDEN")
validationError(details) == error(422, details, "VALIDATION_ERROR")
conflict == error(409, NoField, "CONFLICT")

\* details handed on whatever the deployment is
internalErrorAlways(details, env) == error(500, details, "INTERNAL_ERROR")

\* ApiResponse.internalError(res, message, details) under NODE_ENV = env
internalError(details, env) ==
  error(500, IF env = "development" THEN details ELSE NoField, "INTERNAL_ERROR")

\* The status codes handlers answer with, and one the table does not list.
Statuses == {200, 400, 401, 403, 404, 409, 422, 429, 500, 503, 418}

Helpers ==
  {"notFound", "unauthorized", "forbidden", "validationError", "conflict",
   "internalError"}

ResponseCall(fn, st, dt, code, env) ==
  [fn |-> fn, status |-> st, details |-> dt, code |-> code, env |-> env]

ResponseCalls ==
  { ResponseCall("sendResponse", st, dt, NoField, "production") :
      st \in Statuses, dt \in {NoField, "info"} }
  \cup { ResponseCall("error", st, dt, code, "production") :
           st \in Statuses, dt \in {NoField, "info"},
           code \in {NoField, "AUTH_RATE_LIMIT"} }
  \cup { ResponseCall(h, 0, dt, NoField, env) :
           h \in Helpers, dt \in {NoField, "info"},
           env \in {"development", "production"} }

\* the response one call sends
Response(call) ==
  CASE call.fn = "sendResponse" -> sendResponse(call.status, call.details)
    [] call.fn = "error" -> error(call.status, call.details, call.code)
    [] call.fn = "notFound" -> notFound
    [] call.fn = "unauthorized" -> unauthorized
    [] call.fn = "forbidden" -> forbidden
    [] call.fn = "validationError" -> validationError(call.details)
    [] call.fn = "conflict" -> conflict
    [] call.fn = "internalError" -> internalError(call.details, call.env)

\* Two responses are sent, so that what they share can be compared.
InitRespond ==
  /\ AtRest
  /\ \E c1 \in ResponseCalls, c2 \in ResponseCalls :
       args = [fn |-> "respond", calls |-> <<c1, c2>>]
  /\ ret = NoRet

Respond ==
  /\ args.fn = "respond" /\ ret = NoRet
  /\ ret' = [fn |-> "respond",
             out |-> <<Response(args.calls[1]), Response(args.calls[2])>>]
  /\ UNCHANGED <<gateVars, args>>

NextRespond == Respond

SpecRespond == InitRespond /\ [][NextRespond]_vars

\* ------------------------------------------------ errors and their details
\* What details may hold: nothing, the list of validation entries, the id
\* of a logged error, that id with the stack, or the message of the error.
Envs == {"production", "development", "test"}

\* an error that reached the global handler: its name (or what else the
\* handler recognises it by) and its statusCode, 0 when it has none
Err(kind, st) == [kind |-> kind, statusCode |-> st]

\* the res.json body with the message the client reads
WithMessage(res, msg) ==
  [status |-> res.status, success |-> res.success, code |-> res.code,
   details |-> res.details, message |-> msg]

\* app.use((err, req, res, next) => ...), the global handler
errorHandler(err, env) ==
  CASE err.kind \in {"ValidationError", "CastError", "entity.parse.failed"} ->
         WithMessage(validationError("entries"), "fixed")
    [] err.kind = "duplicate" -> WithMessage(conflict, "fixed")
    [] err.kind \in {"JsonWebTokenError", "TokenExpiredError"} ->
         WithMessage(unauthorized, "fixed")
    [] OTHER ->
         WithMessage(
           error(IF err.statusCode = 0 THEN 500 ELSE err.statusCode,
                 IF env = "development" THEN "errorId+stack" ELSE "errorId",
                 NoField),
           IF env = "production" THEN "fixed" ELSE "err.message")

\* The calls handlers make when something went wrong.
FaultCalls ==
  { [fn |-> "sendResponse", status |-> st, details |-> NoField] :
      st \in Statuses \ {200} }
  \cup { [fn |-> "sendResponse", status |-> 400, details |-> "entries"],
         [fn |-> "validationError", status |-> 422, details |-> "entries"],
         [fn |-> "internalError", status |-> 500, details |-> NoField],
         [fn |-> "internalError", status |-> 500, details |-> "err.message"] }
  \cup { [fn |-> "errorHandler", status |-> st, details |-> kind] :
           st \in {0, 404, 503},
           kind \in {"ValidationError", "CastError", "entity.parse.failed",
                     "duplicate", "JsonWebTokenError", "TokenExpiredError",
                     "Error"} }

FaultResponse(call, env) ==
  CASE call.fn = "sendResponse" ->
         WithMessage(sendResponse(call.status, call.details), "fixed")
    [] call.fn = "validationError" ->
         WithMessage(validationError(call.details), "fixed")
    [] call.fn = "internalError" ->
         WithMessage(internalError(call.details, env), "fixed")
    [] call.fn = "errorHandler" ->
         errorHandler(Err(call.details, call.status), env)

InitFault ==
  /\ AtRest
  /\ \E call \in FaultCalls, env \in Envs :
       args = [fn |-> "fault", call |-> call, env |-> env]
  /\ ret = NoRet

Fault ==
  /\ args.fn = "fault" /\ ret = NoRet
  /\ ret' = [fn |-> "fault", res |-> FaultResponse(args.call, args.env)]
  /\ UNCHANGED <<gateVars, args>>

NextFault == Fault

SpecFault == InitFault /\ [][NextFault]_vars

\* ------------------------------------------------- query and body checks
\* A query parameter: absent, the digits of an integer, or other text.
QAbsent == [t |-> "absent", n |-> 0]
QInt(n) == [t |-> "int", n |-> n]
QText == [t |-> "text", n |-> 0]

QueryValues == {QAbsent, QText} \cup { QInt(n) : n \in -2..MaxQuery }

\* parseInt(value): NaN for undefined and for text without leading digits
NaN == [nan |-> TRUE, n |-> 0]
parseInt(q) == IF q.t = "int" THEN [nan |-> FALSE, n |-> q.n] ELSE NaN

\* parseInt(value) || fallback
OrElse(parsed, fallback) ==
  IF parsed.nan \/ parsed.n = 0 THEN fallback ELSE parsed.n

\* const { page = 1, limit = 10 } = req.query
OrDefault(q, n) == IF q.t = "absent" THEN QInt(n) ELSE q

Min(a, b) == IF a < b THEN a ELSE b

\* validatePagination(req, res, next): answered with the fields it reports,
\* or next() with req.pagination
validatePagination(query) ==
  LET pageNum == parseInt(OrDefault(query.page, 1))
      limitNum == parseInt(OrDefault(query.limit, 10)) IN
  IF pageNum.nan \/ pageNum.n < 1
    THEN [fn |-> "validatePagination", rejected |-> TRUE, fields |-> <<"page">>,
          page |-> 0, limit |-> 0]
  ELSE IF limitNum.nan \/ limitNum.n < 1 \/ limitNum.n > 100
    THEN [fn |-> "validatePagination", rejected |-> TRUE, fields |-> <<"limit">>,
          page |-> 0, limit |-> 0]
  ELSE [fn |-> "validatePagination", rejected |-> FALSE, fields |-> <<>>,
        page |-> pageNum.n, limit |-> limitNum.n]

\* extractPagination(query)
extractPagination(query) ==
  LET page == OrElse(parseInt(query.page), 1)
      limit == Min(OrElse(parseInt(query.limit), 10), 100) IN
  [fn |-> "extractPagination", rejected |-> FALSE, fields |-> <<>>,
   page |-> page, limit |-> limit, skip |-> (page - 1) * limit]

\* null
Null == [t |-> "object", n |-> 0, s |-> "null", b |-> FALSE]

\* requireFields(fields)(req, res, next)
requireFields(fields, body) ==
  LET missing == SelectSeq(fields,
                   LAMBDA f : body[f] = Undefined \/ body[f] = Null
                              \/ body[f] = Str("")) IN
  [fn |-> "requireFields", rejected |-> Len(missing) > 0, fields |-> missing]

\* requireFields(['currentPassword', 'newPassword'])
RequiredFields == <<"currentPassword", "newPassword">>

RequiredBodies ==
  [{"currentPassword", "newPassword"} ->
     {Undefined, Null, Str(""), Str("ab"), Num(0), Bool(FALSE)}]

InitQuery ==
  /\ AtRest
  /\ \/ \E fn \in {"validatePagination", "extractPagination"} :
        \E page \in QueryValues, limit \in QueryValues :
          args = [fn |-> fn, query |-> [page |-> page, limit |-> limit]]
     \/ \E body \in RequiredBodies :
          args = [fn |-> "requireFields", body |-> body]
  /\ ret = NoRet

Query ==
  /\ args.fn \in {"validatePagination", "extractPagination"} /\ ret = NoRet
  /\ ret' = IF args.fn = "validatePagination"
              THEN validatePagination(args.query)
              ELSE extractPagination(args.query)
  /\ UNCHANGED <<gateVars, args>>

Require ==
  /\ args.fn = "requireFields" /\ ret = NoRet
  /\ ret' = requireFields(RequiredFields, args.body)
  /\ UNCHANGED <<gateVars, args>>

NextQuery == Query \/ Require

SpecQuery == InitQuery /\ [][NextQuery]_vars

\* ================================================================== claims
Req(r) == reqs[r]

\* the gate has answered the request in slot r, or handed it to the handler
Settled(r) == Req(r).nexts + Req(r).resps > 0
Admitted(r) == Req(r).nexts = 1
Bearer(r) == Req(r).hdr.scheme = "bearer" /\ Req(r).hdr.token.segs # 0

\* the token of r is well-formed, signed with the configured secret and not
\* expired at the instant the gate verified it
ValidToken(r) ==
  /\ Bearer(r)
  /\ JWT_SECRET # NoSecret
  /\ Req(r).hdr.token.segs = 3
  /\ Req(r).hdr.token.key = JWT_SECRET
  /\ Req(r).t0 < Req(r).hdr.token.exp

\* the lookup of r found an active account
ActiveAccount(r) == Req(r).found.kind = "doc" /\ Req(r).found.isActive

\* C1: a request with a valid, unexpired token of an existing active account
\* with role r is always admitted by auth, admitted by adminAuth iff r is
\* admin, admitted by managerAuth iff r is admin or manager, and otherwise
\* rejected with 403 without the handler being invoked.
C1_RoleGate ==
  \A r \in Slots :
    (Settled(r) /\ ValidToken(r) /\ ActiveAccount(r)) =>
      LET gate == GateOf(Req(r).route)
          role == Req(r).found.role IN
      /\ gate = "auth" => Admitted(r)
      /\ gate = "adminAuth" => (Admitted(r) <=> role = "admin")
      /\ gate = "managerAuth" => (Admitted(r) <=> role \in {"admin", "manager"})
      /\ ~Admitted(r) => /\ Req(r).status = 403
                         /\ Req(r).nexts = 0
                         /\ Req(r).pc = "done"

\* a manager with a valid token is turned away from an admin-only route
C1_Witness ==
  \E r \in Slots :
    /\ Settled(r) /\ ValidToken(r) /\ ActiveAccount(r)
    /\ GateOf(Req(r).route) = "adminAuth"
    /\ Req(r).found.role = "manager"
    /\ Req(r).status = 403

\* the token of r fails jwt.verify under the configured secret
TokenFails(r) ==
  /\ Bearer(r)
  /\ JWT_SECRET # NoSecret
  /\ \/ Req(r).hdr.token.segs # 3
     \/ Req(r).hdr.token.key # JWT_SECRET
     \/ Req(r).t0 >= Req(r).hdr.token.exp

\* C2: when token verification fails, the account does not exist, the
\* account is inactive or the lookup fails, the gate answers 401 (500 for a
\* failed lookup), does not call the handler and attaches no principal.
C2_FailClosed ==
  \A r \in Slots :
    (Settled(r) /\ (\/ TokenFails(r)
                    \/ Req(r).found.kind \in {"null", "error"}
                    \/ (Req(r).found.kind = "doc" /\ ~Req(r).found.isActive))) =>
      /\ Req(r).status = IF Req(r).found.kind = "error" THEN 500 ELSE 401
      /\ Req(r).resps = 1
      /\ Req(r).nexts = 0
      /\ Req(r).pc = "done"
      /\ Req(r).user.kind = "none"

\* the token of a deleted account is presented and answered with 401
C2_Witness ==
  \E r \in Slots :
    /\ Settled(r) /\ ValidToken(r)
    /\ Req(r).found.kind = "null"
    /\ Req(r).status = 401

\* the token of r was issued by login and is still valid, and the lookup of
\* r found the account deactivated
DeactivatedAfterIssue(r) ==
  /\ Settled(r) /\ ValidToken(r)
  /\ Req(r).hdr.token \in issued
  /\ Req(r).found.kind = "doc" /\ ~Req(r).found.isActive

\* C3 (as claimed): a token issued to an active account keeps being admitted
\* after the account is deactivated, until the token expires.
C3_StillAdmitted ==
  \A r \in Slots :
    (DeactivatedAfterIssue(r) /\ GateOf(Req(r).route) = "auth") => Admitted(r)

\* C3 (amended): a request carrying an unexpired issued token whose account
\* lookup finds the account deactivated is rejected with 401 'Usuario
\* inativo'; the handler is not invoked and no principal is attached.
C3_DeactivatedRejected ==
  \A r \in Slots :
    DeactivatedAfterIssue(r) =>
      /\ Req(r).status = 401
      /\ Req(r).error = "Usuario inativo"
      /\ Req(r).nexts = 0
      /\ Req(r).user.kind = "none"

\* bob logged in, was deactivated by the admin and presents his token
C3_Witness ==
  \E r \in Slots :
    /\ DeactivatedAfterIssue(r)
    /\ ~users[Req(r).hdr.token.userId].isActive
    /\ Req(r).error = "Usuario inativo"

\* C4: adminAuth and managerAuth test the role of the account resolved at
\* request time, not the role claim of the token: a token issued to an admin
\* who has since become a user is answered 403 on an admin-only route, and
\* in general the role found by the lookup alone decides.
C4_RoleFromAccount ==
  \A r \in Slots :
    (Settled(r) /\ ValidToken(r) /\ ActiveAccount(r)
       /\ Req(r).hdr.token.role # Req(r).found.role) =>
      LET gate == GateOf(Req(r).route)
          role == Req(r).found.role
          allowed == CASE gate = "adminAuth" -> {"admin"}
                       [] gate = "managerAuth" -> {"admin", "manager"}
                       [] OTHER -> Roles IN
      IF role \in allowed
        THEN Admitted(r) /\ Req(r).user.role = role
        ELSE Req(r).status = 403 /\ Req(r).nexts = 0 /\ Req(r).resps = 1

\* a token with role claim admin, account now user, admin-only route: 403
C4_Witness ==
  \E r \in Slots :
    /\ Settled(r) /\ ValidToken(r) /\ ActiveAccount(r)
    /\ GateOf(Req(r).route) = "adminAuth"
    /\ Req(r).hdr.token.role = "admin"
    /\ Req(r).found.role = "user"
    /\ Req(r).status = 403

\* jwt.verify was reached with a three-segment token past its expiry
ExpiredAtVerify(r) ==
  /\ Settled(r) /\ Bearer(r)
  /\ JWT_SECRET # NoSecret
  /\ Req(r).hdr.token.segs = 3
  /\ Req(r).t0 >= Req(r).hdr.token.exp

\* C5 (as claimed): every token past its expiry fails with 'Token expirado',
\* whether or not its signature is valid.
C5_ExpiredWhateverSignature ==
  \A r \in Slots :
    ExpiredAtVerify(r) => Req(r).status = 401 /\ Req(r).error = "Token expirado"

\* C5 (amended): a token past its expiry fails with 'Token expirado' when
\* its signature is valid; when its signature is not valid it fails with
\* 'Token invalido', the signature being checked before the expiry.
C5_ExpiredBySignature ==
  \A r \in Slots :
    ExpiredAtVerify(r) =>
      /\ Req(r).status = 401
      /\ Req(r).nexts = 0
      /\ Req(r).error = IF Req(r).hdr.token.key = JWT_SECRET
                          THEN "Token expirado" ELSE "Token invalido"

\* an issued token is presented at its expiry instant
C5_Witness ==
  \E r \in Slots :
    /\ ExpiredAtVerify(r)
    /\ Req(r).hdr.token \in issued
    /\ Req(r).t0 = Req(r).hdr.token.exp
    /\ Req(r).error = "Token expirado"

\* C6 (as claimed): a token that is not three segments yields Malformed, a
\* token with a bad signature yields InvalidSignature, an expired token
\* yields Expired, and none of them is admitted.
C6_OneReasonPerKind ==
  \A r \in Slots :
    (Settled(r) /\ Bearer(r) /\ JWT_SECRET # NoSecret) =>
      LET tok == Req(r).hdr.token IN
      /\ tok.segs # 3 => Req(r).error = "Token malformado"
      /\ (tok.segs = 3 /\ tok.key # JWT_SECRET) => Req(r).error = "Token invalido"
      /\ (tok.segs = 3 /\ Req(r).t0 >= tok.exp) => Req(r).error = "Token expirado"
      /\ TokenFails(r) => ~Admitted(r)

\* C6 (amended): with a secret configured the gate reports the first check a
\* token fails: not three segments gives 'Token malformado', three segments
\* with a bad signature give 'Token invalido' (also when the token is
\* expired), a valid signature past the expiry gives 'Token expirado'; the
\* three reasons differ and none of these requests is admitted.
C6_FirstFailureReason ==
  \A r \in Slots :
    (Settled(r) /\ TokenFails(r)) =>
      LET tok == Req(r).hdr.token
          kind == IF tok.segs # 3 THEN "Malformed"
                  ELSE IF tok.key # JWT_SECRET THEN "InvalidSignature"
                  ELSE "Expired"
          reason == [Malformed |-> "Token malformado",
                     InvalidSignature |-> "Token invalido",
                     Expired |-> "Token expirado"] IN
      /\ Req(r).error = reason[kind]
      /\ \A k \in DOMAIN reason \ {kind} : Req(r).error # reason[k]
      /\ Req(r).status = 401
      /\ ~Admitted(r)

\* a two-segment token is answered 'Token malformado'
C6_Witness ==
  \E r \in Slots :
    /\ Settled(r) /\ TokenFails(r)
    /\ Req(r).hdr.token.segs = 2
    /\ Req(r).error = "Token malformado"

\* C7: a token issued by login to an active account and presented to the
\* gate at once is verified and resolved to a principal with the account
\* identifier and the role the account had when the token was issued.
C7_RoundTrip ==
  \A r \in Slots :
    (Settled(r) /\ Req(r).imm /\ IsFresh(Req(r).hdr.token)
       /\ Req(r).found.kind # "error") =>
      /\ Req(r).user.kind = "doc"
      /\ Req(r).user.id = fresh.id
      /\ Req(r).user.role = fresh.role
      /\ Req(r).user.isActive
      /\ GateOf(Req(r).route) = "auth" => Admitted(r)

\* bob logs in and his first request with the token reaches the handler
C7_Witness ==
  \E r \in Slots :
    /\ Settled(r) /\ Req(r).imm /\ IsFresh(Req(r).hdr.token)
    /\ fresh.id = "u2"
    /\ Req(r).user.id = "u2"
    /\ Admitted(r)

\* C8: while no signing secret is configured, no request is admitted by
\* auth, adminAuth or managerAuth, and login issues no token.
C8_NoSecretNoAdmission ==
  JWT_SECRET = NoSecret =>
    /\ \A r \in Slots : /\ Req(r).nexts = 0
                        /\ Req(r).pc # "handler"
                        /\ Req(r).user.kind = "none"
    /\ issued = {}
    /\ loginRes.status # 200
    /\ loginRes.token = EmptyTok

\* without a secret, a bearer token and a complete login are both answered
\* 500
C8_Witness ==
  /\ JWT_SECRET = NoSecret
  /\ loginRes.status = 500
  /\ \E r \in Slots : /\ Bearer(r)
                      /\ Req(r).hdr.token.segs = 3
                      /\ Req(r).status = 500
                      /\ Req(r).error = "Erro de configuracao do servidor"

\* the stages of a gate, in the order of the code
Canon(gate) ==
  IF gate = "auth"
    THEN <<"CredentialExtracted", "TokenVerified", "PrincipalResolved">>
    ELSE <<"CredentialExtracted", "TokenVerified", "PrincipalResolved",
           "RoleChecked">>

IsPrefix(s, t) == Len(s) <= Len(t) /\ \A i \in 1..Len(s) : s[i] = t[i]

\* C9: a request passes credential extraction, token verification,
\* principal resolution and role check in that order, each at most once, and
\* ends either admitted (the handler invoked once, after every stage
\* succeeded, no error response) or rejected (one error response, the
\* handler never invoked).
C9_StagesAndOutcome ==
  \A r \in Slots :
    LET gate == GateOf(Req(r).route)
        allowed == CASE gate = "adminAuth" -> {"admin"}
                     [] gate = "managerAuth" -> {"admin", "manager"}
                     [] OTHER -> Roles IN
    /\ IsPrefix(Req(r).stages, Canon(gate))
    /\ Req(r).nexts + Req(r).resps <= 1
    /\ Req(r).pc \in {"lookup", "resume"} => ~Settled(r)
    /\ Req(r).pc = "handler" => Admitted(r)
    /\ Admitted(r) => /\ Req(r).stages = Canon(gate)
                      /\ ValidToken(r)
                      /\ ActiveAccount(r)
                      /\ Req(r).user = Req(r).found
                      /\ Req(r).found.role \in allowed
                      /\ Req(r).status = 0
    /\ Req(r).resps = 1 => /\ Req(r).stages # Canon(gate)
                           /\ Req(r).status \in {401, 403, 500}
                           /\ Req(r).pc = "done"

\* an admin passed all four stages of adminAuth
C9_Witness ==
  \E r \in Slots :
    /\ GateOf(Req(r).route) = "adminAuth"
    /\ Admitted(r)
    /\ Len(Req(r).stages) = 4

\* a step of the gate: the request in some slot moves, and not by its
\* route handler
GateStep ==
  \E r \in Slots : reqs'[r] # reqs[r] /\ reqs[r].pc # "handler"

\* C10: no step of auth, adminAuth or managerAuth, admitting or rejecting,
\* changes any field of any account; lastLogin is stamped by login alone.
C10_GateReadOnly == [][GateStep => users' = users]_vars

\* a request is admitted after the clock moved past the login, and the
\* lastLogin of its principal is still the instant of the login
C10_Witness ==
  \E r \in Slots :
    /\ Admitted(r)
    /\ Req(r).t0 > Req(r).hdr.token.iat
    /\ users[Req(r).user.id].lastLogin = Req(r).hdr.token.iat

\* the holder of the token of r has logged out or changed password with it
SessionEnded(r) == Req(r).hdr.token \in loggedOut

\* C11: a token is invalidated by expiry alone: after its holder logged out
\* or changed password with it, a request carrying it before its expiry is
\* still admitted by auth as long as the account exists and is active, and
\* is refused by a role gate for the role only.
C11_AdmittedAfterLogout ==
  \A r \in Slots :
    (Settled(r) /\ SessionEnded(r) /\ ValidToken(r)) =>
      /\ Req(r).found.kind # "none"         \* the gate went on to the lookup
      /\ ActiveAccount(r) =>
           /\ GateOf(Req(r).route) = "auth" => Admitted(r)
           /\ ~Admitted(r) => /\ Req(r).status = 403
                              /\ GateOf(Req(r).route) # "auth"
                              /\ Req(r).found.role # "admin"

\* a request is admitted, its handler yet to run, with a token whose holder
\* changed password earlier: the stored credential is already the new one
C11_Witness ==
  \E r \in Slots :
    /\ Admitted(r) /\ SessionEnded(r)
    /\ Req(r).pc = "handler"
    /\ Req(r).route = "logout"
    /\ users[Req(r).user.id].password = Hash("newpass1")

\* C12: every token login issues carries the id, the username and the role
\* of the account that logged in, as they are at that moment, is issued at
\* the current instant and expires exactly TokenTTL later.
C12_IssuedClaims ==
  [][\A tok \in issued' \ issued :
       /\ loginRes'.status = 200 /\ loginRes'.token = tok
       /\ tok.userId \in UserIds
       /\ users'[tok.userId].lastLogin = now     \* the account that logged in
       /\ users[tok.userId].exists
       /\ tok.username = users[tok.userId].username
       /\ tok.role = users[tok.userId].role
       /\ tok.iat = now
       /\ tok.exp = tok.iat + TokenTTL]_vars

\* a token issued to a manager after the clock moved, whose account has
\* since been given another role
C12_Witness ==
  \E tok \in issued :
    /\ tok.userId = "u2" /\ tok.username = "bob" /\ tok.role = "manager"
    /\ tok.iat = TickStep
    /\ users["u2"].role = "user"

\* what the gate decides from the token of r, the instant it was verified
\* and the account its lookup returned
OwnDecision(r) ==
  LET gate == GateOf(Req(r).route)
      doc == Req(r).found IN
  IF ~ValidToken(r) THEN "rejected"
  ELSE IF doc.kind # "doc" \/ ~doc.isActive THEN "rejected"
  ELSE IF gate = "adminAuth" /\ doc.role # "admin" THEN "rejected"
  ELSE IF gate = "managerAuth" /\ doc.role \notin {"admin", "manager"}
    THEN "rejected"
  ELSE "admitted"

\* the account with that id as the collection holds it
AccountNow(id) ==
  IF users[id].exists
    THEN [kind |-> "doc", id |-> id, role |-> users[id].role,
          isActive |-> users[id].isActive, email |-> users[id].email]
    ELSE NullDoc

\* C13: with two requests in the gate at once, under every interleaving, the
\* decision for a request is the one its own token and the account read at
\* its own lookup give, the principal attached is the account of its own
\* token, and no step of one request changes anything of the other.
C13_OwnDecision ==
  /\ [](\A r \in AllSlots :
          Settled(r) =>
            /\ Admitted(r) <=> OwnDecision(r) = "admitted"
            /\ Admitted(r) => /\ Req(r).user = Req(r).found
                              /\ Req(r).user.id = Req(r).hdr.token.userId)
  /\ [][\A r \in AllSlots :
         /\ (reqs[r].pc = "lookup" /\ reqs'[r].pc = "resume") =>
              reqs'[r].found \in {AccountNow(reqs[r].hdr.token.userId), DbError}
         /\ reqs'[r] # reqs[r] =>
              \A s \in AllSlots \ {r} : reqs'[s] = reqs[s]]_vars

\* two requests with different tokens are past the gate at once, each with
\* the account of its own token as principal
C13_Witness ==
  /\ Admitted("a") /\ Admitted("b")
  /\ Req("a").pc = "handler" /\ Req("b").pc = "handler"
  /\ Req("a").hdr.token.userId = "u1" /\ Req("a").user.id = "u1"
  /\ Req("b").hdr.token.userId = "u2" /\ Req("b").user.id = "u2"

\* the call of validateRequest under study has returned
Validated == ret # NoRet /\ args.fn = "validateRequest"

Mentions(seq, x) == \E i \in 1..Len(seq) : seq[i] = x

\* the field carries a value: it is present and not an empty or blank string
HasValue(v) == v.t # "undefined" /\ ~Blank(v)

\* the type of a value as a rule names it
RuntimeType(v) == IF IsArray(v) THEN "array" ELSE v.t

TypeDiffers(rules, v) == rules.type # "none" /\ RuntimeType(v) # rules.type

\* the constraints of a rule that a value of the declared type violates
Violated(rules, v) ==
  IF TypeDiffers(rules, v) THEN {"type"}
  ELSE { k \in {"minLength", "maxLength", "pattern", "min", "max", "enum",
                "email"} :
           \/ k = "minLength" /\ v.t = "string" /\ Length(v.s) < rules.minLength
           \/ k = "maxLength" /\ v.t = "string" /\ rules.maxLength # 0
                /\ Length(v.s) > rules.maxLength
           \/ k = "min" /\ v.t = "number" /\ \E m \in rules.min : v.n < m
           \/ k = "max" /\ v.t = "number" /\ \E m \in rules.max : v.n > m
           \/ k = "pattern" /\ v.t = "string" /\ ~PatternTest(rules.pattern, v.s)
           \/ k = "enum" /\ rules.enum # {} /\ v.s \notin rules.enum
           \/ k = "email" /\ rules.format = "email" /\ ~EmailTest(v) }

\* the entries of the result that are about field f
EntriesFor(f) ==
  Cardinality({ i \in 1..Len(ret.missingFields) : ret.missingFields[i] = f })
  + Cardinality({ i \in 1..Len(ret.errors) : ret.errors[i][1] = f })

\* C14: validateRequest examines every field of the rule set: a required
\* field without a value is listed as missing and gets no other entry, every
\* constraint violated by the value of another field is listed among the
\* errors, whatever the other fields are, and isValid is true iff nothing
\* is listed.
C14_ListsEveryProblem ==
  Validated =>
    LET schema == Schema(args.schema) IN
    /\ ret.isValid <=> (ret.missingFields = <<>> /\ ret.errors = <<>>)
    /\ \A i \in 1..Len(schema) :
         LET f == schema[i].field
             rules == schema[i].rules
             v == args.data[f] IN
         /\ (rules.required /\ ~HasValue(v)) =>
              /\ Mentions(ret.missingFields, f)
              /\ EntriesFor(f) = 1
         /\ HasValue(v) =>
              \A k \in Violated(rules, v) : Mentions(ret.errors, <<f, k>>)

\* C15: a value whose runtime type differs from the type its rule declares
\* gets exactly one entry in the result, and the result is invalid.
C15_OneErrorPerTypeMismatch ==
  Validated =>
    LET schema == Schema(args.schema) IN
    \A i \in 1..Len(schema) :
      LET f == schema[i].field
          v == args.data[f] IN
      (HasValue(v) /\ TypeDiffers(schema[i].rules, v)) =>
        /\ EntriesFor(f) = 1
        /\ ~ret.isValid

\* the field f of the rule set is optional and declares a default
Defaulted(schema, f) ==
  \E i \in 1..Len(schema) :
    /\ schema[i].field = f
    /\ ~schema[i].rules.required
    /\ schema[i].rules.default # Undefined

RuleIndex(schema, f) ==
  CHOOSE i \in 1..Len(schema) : schema[i].field = f

\* C16: validateRequest changes its input only by writing the declared
\* default into optional fields the input does not have; every field the
\* caller supplied keeps its value, 0, false and the empty string included,
\* and no other field is added, changed or removed.
C16_OnlyDefaultsFilled ==
  Validated =>
    LET schema == Schema(args.schema) IN
    /\ DOMAIN ret.data = DOMAIN args.data
    /\ \A f \in DOMAIN args.data :
         IF args.data[f] = Undefined /\ Defaulted(schema, f)
           THEN ret.data[f] = schema[RuleIndex(schema, f)].rules.default
           ELSE ret.data[f] = args.data[f]

\* one of the two pagination builders has returned
Paged == ret # NoRet /\ args.fn \in {"createPagination", "paginated"}

\* C18: for all integers page >= 0, total >= 0 and limit > 0 both builders
\* give totalPages = ceil(total / limit), the least number of pages of limit
\* items that hold total items, hasNext = (page < totalPages) and
\* hasPrev = (page > 1).
C18_PaginationArithmetic ==
  Paged =>
    /\ ret.totalPages * args.limit >= args.total
    /\ (ret.totalPages - 1) * args.limit < args.total
    /\ ret.hasNext <=> args.page < ret.totalPages
    /\ ret.hasNext <=> args.page * args.limit < args.total
    /\ ret.hasPrev <=> args.page > 1

\* seven items in pages of three, page two: three pages, one on each side
C18_Witness ==
  /\ Paged /\ args.fn = "paginated"
  /\ args.total = 7 /\ args.limit = 3 /\ args.page = 2
  /\ ret.totalPages = 3 /\ ret.hasNext /\ ret.hasPrev

\* C19 (as claimed): with no items, every page >= 1 has totalPages = 0 and
\* neither a next nor a previous page; with 95 items in pages of 10, page 10
\* has totalPages = 10, no next page and a previous page.
C19_EmptyHasNoPrev ==
  Paged =>
    /\ (args.total = 0 /\ args.page >= 1) =>
         (ret.totalPages = 0 /\ ~ret.hasNext /\ ~ret.hasPrev)
    /\ (args.total = 95 /\ args.limit = 10 /\ args.page = 10) =>
         (ret.totalPages = 10 /\ ~ret.hasNext /\ ret.hasPrev)

\* C19 (amended): with no items, every page >= 1 has totalPages = 0 and no
\* next page, and has a previous page exactly when page > 1; with 95 items in
\* pages of 10, page 10 has totalPages = 10, no next and a previous page.
C19_EmptyAndLastPage ==
  Paged =>
    /\ (args.total = 0 /\ args.page >= 1) =>
         (ret.totalPages = 0 /\ ~ret.hasNext /\ (ret.hasPrev <=> args.page > 1))
    /\ (args.total = 95 /\ args.limit = 10 /\ args.page = 10) =>
         (ret.totalPages = 10 /\ ~ret.hasNext /\ ret.hasPrev)

\* page 2 of an empty collection announces a previous page
C19_Witness ==
  /\ Paged /\ args.fn = "createPagination"
  /\ args.total = 0 /\ args.page = 2
  /\ ret.totalPages = 0 /\ ~ret.hasNext /\ ret.hasPrev

\* both responses have been sent
Responded == ret # NoRet /\ args.fn = "respond"

\* the i-th response is an error response
IsError(i) == ~ret.out[i].success

\* the statuses spec and code give a code of their own
MappedStatuses == {400, 401, 403, 404, 409, 422, 429, 500, 503}

\* C20 (as claimed): in every error response of sendResponse and of the
\* ApiResponse error helpers the code depends on the status alone, two error
\* responses of equal status carry equal codes, 404 gives NOT_FOUND, 409
\* CONFLICT, 422 VALIDATION_ERROR, and a status outside the table gives
\* UNKNOWN_ERROR.
C20_CodeByStatus ==
  Responded =>
    /\ (IsError(1) /\ IsError(2) /\ ret.out[1].status = ret.out[2].status) =>
         ret.out[1].code = ret.out[2].code
    /\ \A i \in {1, 2} :
         IsError(i) =>
           /\ ret.out[i].status = 404 => ret.out[i].code = "NOT_FOUND"
           /\ ret.out[i].status = 409 => ret.out[i].code = "CONFLICT"
           /\ ret.out[i].status = 422 => ret.out[i].code = "VALIDATION_ERROR"
           /\ ret.out[i].status \notin MappedStatuses =>
                ret.out[i].code = "UNKNOWN_ERROR"

\* the code each fixed helper of ApiResponse sends
HelperCode(fn) ==
  CASE fn = "notFound" -> "RESOURCE_NOT_FOUND"
    [] fn = "unauthorized" -> "UNAUTHORIZED"
    [] fn = "forbidden" -> "FORBIDDEN"
    [] fn = "validationError" -> "VALIDATION_ERROR"
    [] fn = "conflict" -> "CONFLICT"
    [] fn = "internalError" -> "INTERNAL_ERROR"

\* C20 (amended): in the error responses of sendResponse the code depends on
\* the status alone, by the fixed table, UNKNOWN_ERROR outside it; the
\* helpers of ApiResponse send a code of their own (RESOURCE_NOT_FOUND for
\* notFound, the table's code for the others) and ApiResponse.error sends
\* the code its caller passes, or none.
C20_CodeBySender ==
  Responded =>
    /\ (args.calls[1].fn = "sendResponse" /\ args.calls[2].fn = "sendResponse"
        /\ ret.out[1].status = ret.out[2].status) =>
         ret.out[1].code = ret.out[2].code
    /\ \A i \in {1, 2} :
         LET call == args.calls[i]
             res == ret.out[i] IN
         /\ (call.fn = "sendResponse" /\ IsError(i)) =>
              /\ res.status = 404 => res.code = "NOT_FOUND"
              /\ res.status = 409 => res.code = "CONFLICT"
              /\ res.status = 422 => res.code = "VALIDATION_ERROR"
              /\ res.status \notin MappedStatuses => res.code = "UNKNOWN_ERROR"
              /\ res.status \in MappedStatuses => res.code # "UNKNOWN_ERROR"
         /\ call.fn \in Helpers => res.code = HelperCode(call.fn)
         /\ call.fn = "error" => res.code = call.code

\* a 404 sent by sendResponse and a 404 sent by ApiResponse.notFound carry
\* different codes
C20_Witness ==
  /\ Responded
  /\ args.calls[1].fn = "sendResponse" /\ args.calls[2].fn = "notFound"
  /\ ret.out[1].status = 404 /\ ret.out[2].status = 404
  /\ ret.out[1].code = "NOT_FOUND" /\ ret.out[2].code = "RESOURCE_NOT_FOUND"

\* an error response has been sent
Faulted == ret # NoRet /\ args.fn = "fault" /\ ~ret.res.success

\* a stack trace or the message of an internal error
Diagnostic(d) == d \in {"errorId+stack", "err.message"}

Queried ==
  ret # NoRet /\ args.fn \in {"validatePagination", "extractPagination"}

\* C22: the page and limit that validatePagination hands to the handler and
\* that extractPagination returns satisfy page >= 1 and 1 <= limit <= 100,
\* whatever the query holds: an out-of-bounds input is rejected or replaced.
C22_PageAndLimitBounded ==
  (Queried /\ ~ret.rejected) =>
    /\ ret.page >= 1
    /\ ret.limit >= 1 /\ ret.limit <= 100

\* the query parameter is present and is not an integer in lo..hi
OutOfRange(q, lo, hi) ==
  q.t = "text" \/ (q.t = "int" /\ (q.n < lo \/ q.n > hi))

\* C23: one validation response lists every invalid input: validatePagination
\* given an invalid page and an invalid limit reports both fields, and
\* requireFields reports every missing field.
C23_AllProblemsListed ==
  /\ (ret # NoRet /\ args.fn = "validatePagination") =>
       /\ OutOfRange(args.query.page, 1, MaxQuery) =>
            (ret.rejected /\ Mentions(ret.fields, "page"))
       /\ OutOfRange(args.query.limit, 1, 100) =>
            (ret.rejected /\ Mentions(ret.fields, "limit"))
  /\ (ret # NoRet /\ args.fn = "requireFields") =>
       \A f \in DOMAIN args.body :
         args.body[f] \in {Undefined, Null, Str("")} =>
           (ret.rejected /\ Mentions(ret.fields, f))

\* the accounts the collection holds
Existing == { u \in UserIds : users[u].exists }

\* C24: whatever creations and updates have run, no two accounts hold the
\* same username or the same email when letter case is ignored.
C24_UniqueIgnoringCase ==
  \A u, v \in Existing :
    u # v => /\ Lower(users[u].username) # Lower(users[v].username)
             /\ Lower(users[u].email) # Lower(users[v].email)

\* what the unique indexes do keep apart: usernames character by character,
\* and emails whatever their case, since they are stored lowercased
C24_UniqueAsStored ==
  \A u, v \in Existing :
    u # v => /\ users[u].username # users[v].username
             /\ Lower(users[u].email) # Lower(users[v].email)

\* the request in slot r has been answered by its handler with status st
Answered(r, route, st) ==
  Req(r).pc = "done" /\ Req(r).route = route /\ Req(r).hstatus = st

\* C25: no request of an admin switches that admin's own account off: in any
\* step of a handler run for an admin, the admin's account stays active.
C25_AdminStaysActive ==
  [][\A r \in Slots :
       (/\ reqs[r].pc = "handler" /\ reqs'[r].pc = "done"
        /\ reqs[r].user.role = "admin"
        /\ users[reqs[r].user.id].exists
        /\ users[reqs[r].user.id].isActive) =>
         users'[reqs[r].user.id].isActive]_vars

\* the same for the status route alone, which refuses the request
C25_StatusRouteKeepsAdmin ==
  [][\A r \in Slots :
       (/\ reqs[r].pc = "handler" /\ reqs'[r].pc = "done"
        /\ reqs[r].route = "status"
        /\ reqs[r].user.role = "admin"
        /\ users[reqs[r].user.id].exists
        /\ users[reqs[r].user.id].isActive) =>
         users'[reqs[r].user.id].isActive]_vars

C27_BootstrapAdminLogsIn ==
  [][(/\ Booted /\ ~args.hadAdmin /\ args.connected
      /\ JWT_SECRET # NoSecret
      /\ Login("ADMIN", "Lima12345")) =>
       (loginRes'.status = 200 /\ loginRes'.token # EmptyTok)]_vars

\* C28: a login attempt that returns no token leaves every account as it
\* was, lastLogin included: a step that changes an account is a login
\* answered 200 with a token.
C28_OnlyTokenLoginStamps ==
  [][users' # users =>
       (loginRes'.status = 200 /\ loginRes'.token # EmptyTok)]_vars

\* the attempts refused before the token is made: a missing field, a missing
\* secret, an unknown username, a wrong password, an inactive account
C28_RefusedLoginKeepsAccount ==
  [][(loginRes' # loginRes /\ loginRes'.status # 200
      /\ loginRes'.error # "Erro na geracao do token") =>
       users' = users]_vars

\* the principal of a request is the creator or the assignee of the task, or
\* holds the role admin or manager
MayEdit(me, task) ==
  \/ me.id \in {task.createdBy, task.assignedTo}
  \/ me.role \in {"admin", "manager"}

\* slot r runs its route handler in this step
HandlerStep(r) == reqs[r].pc = "handler" /\ reqs'[r].pc = "done"

\* C29: the stored fields of a task change only through a request of its
\* creator, of its assignee, or of an admin or manager: every step that
\* changes a task is the handler of such a request.
C29_OnlyPermittedChangeTask ==
  [][\A t \in TaskIds :
       tasks'[t] # tasks[t] =>
         \E r \in Slots : HandlerStep(r) /\ MayEdit(reqs[r].user, tasks[t])]_vars

\* C29 as the routes have it: an edit or a deletion changes a task only for
\* its creator, its assignee, an admin or a manager; any signed-in user may
\* add a comment under their own id and switch a checklist item, which
\* changes the comments, or the checklist and the progress, and nothing else
\* but updatedAt.
C29_EditGuardedCommentsOpen ==
  [][\A t \in TaskIds :
       tasks'[t] # tasks[t] =>
         \E r \in Slots :
           /\ HandlerStep(r)
           /\ \/ MayEdit(reqs[r].user, tasks[t])
              \/ /\ reqs[r].route = "taskComment"
                 /\ tasks'[t] =
                      [tasks[t] EXCEPT
                         !.comments = Append(@, reqs[r].user.id),
                         !.updatedAt = now]
              \/ /\ reqs[r].route = "taskChecklist"
                 /\ tasks'[t] =
                      [tasks[t] EXCEPT
                         !.checklist = tasks'[t].checklist,
                         !.progress = tasks'[t].progress,
                         !.updatedAt = now]]_vars

\* a user who may not edit the task has commented on it, and has then been
\* refused an edit with 403
C29_Witness ==
  \E r \in Slots, t \in TaskIds :
    /\ Req(r).pc = "done" /\ Req(r).route = "taskUpdate"
    /\ Req(r).target = t /\ Req(r).hstatus = 403
    /\ ~MayEdit(Req(r).user, tasks[t])
    /\ Mentions(tasks[t].comments, Req(r).user.id)

\* the credential of account u is no longer the one it was seeded with
Replaced(u) == users[u].exists /\ users[u].password # Hash(Passwords[u])

\* C30: change-password replaces the credential exactly when the current
\* password matches the stored one and the new one has six characters or
\* more, and leaves every account as it was otherwise; once it is replaced,
\* a login with the new password is answered 200 with a token and a login
\* with the old one 401.
C30_ChangePassword ==
  [][/\ \A r \in Slots :
          (HandlerStep(r) /\ reqs[r].route = "changePassword") =>
            LET me == reqs[r].user.id
                body == reqs[r].body
                ok == /\ users[me].exists
                      /\ comparePassword(users[me].password, body.currentPassword)
                      /\ StrLen(body.newPassword) >= 6 IN
            IF ok
              THEN /\ reqs'[r].hstatus = 200
                   /\ users' = [users EXCEPT
                                  ![me].password = Hash(body.newPassword)]
              ELSE reqs'[r].hstatus # 200 /\ users' = users
     /\ \A u \in UserIds :
          (Replaced(u) /\ users[u].isActive /\ JWT_SECRET # NoSecret) =>
            /\ Login(Usernames[u], "newpass1") =>
                 (loginRes'.status = 200 /\ loginRes'.token.userId = u)
            /\ Login(Usernames[u], Passwords[u]) =>
                 (loginRes'.status = 401 /\ loginRes'.token = EmptyTok)]_vars

\* the password of an account has been changed, and its holder has just
\* logged in with the new one
C30_Witness ==
  \E u \in UserIds :
    /\ Replaced(u) /\ users[u].password = Hash("newpass1")
    /\ loginRes.status = 200 /\ loginRes.token.userId = u
    /\ fresh.token = loginRes.token /\ fresh.id = u

====
